---- MODULE Spec2Model ----
(***************************************************************************)
(* Model of workers-discord: the handler registry (structure.ts) and the   *)
(* interaction dispatcher (createHandler / handleRequest /                 *)
(* handleInteraction / handleCommandInteraction /                          *)
(* handleComponentInteraction).                                            *)
(*                                                                         *)
(* One inbound call is followed through its suspension points: the await   *)
(* of isValidRequest, the await of request.json(), the settling of a       *)
(* promise returned by a handler, and the resolution of the promise that   *)
(* the request handler returned to its caller.  A task that a handler      *)
(* passed to wait (context.waitUntil) runs on its own.                     *)
(***************************************************************************)
EXTENDS Integers, Sequences, FiniteSets, TLC

\* ---------------------------------------------------------------- bounds
MaxCommands == 2      \* length of the command list given to createHandler
MaxComponents == 2    \* length of the component list given to createHandler
MaxCalls == 2         \* inbound calls handled by one handler
MaxTaskCalls == 2     \* edit / follow-up calls one deferred task issues

\* ------------------------------------------------- discord-api-types values
Undefined == 0                    \* an absent (undefined) numeric field
ChatInput == 1                    \* ApplicationCommandType.ChatInput
User == 2                         \* ApplicationCommandType.User
Message == 3                      \* ApplicationCommandType.Message
PrimaryEntryPoint == 4            \* ApplicationCommandType.PrimaryEntryPoint
Ping == 1                         \* InteractionType.Ping
ApplicationCommand == 2           \* InteractionType.ApplicationCommand
MessageComponent == 3             \* InteractionType.MessageComponent
ApplicationCommandAutocomplete == 4   \* an InteractionType the switch does not handle

\* typeof value.execute !== 'function'
NotCallable == "not-a-function"

\* -------------------------------------------------------- JavaScript objects
\* The indexes are plain objects ({} as the reduce seed): a property read
\* obj[key] finds own properties first and then Object.prototype's.
ObjectPrototypeKeys ==
    {"constructor", "toString", "toLocaleString", "valueOf", "hasOwnProperty",
     "isPrototypeOf", "propertyIsEnumerable", "__proto__"}

\* !obj[key] is false: an own entry (an object) or an inherited member
\* (a function, or Object.prototype itself for __proto__).
HasTruthy(obj, key) == key \in DOMAIN obj \/ key \in ObjectPrototypeKeys

\* obj[key].execute: an own entry's execute; inherited members have none.
ExecuteOf(obj, key) == IF key \in DOMAIN obj THEN obj[key].execute ELSE NotCallable

\* {...acc, [name]: value}
Spread(acc, name, value) ==
    [k \in DOMAIN acc \cup {name} |-> IF k = name THEN value ELSE acc[k]]

EmptyObject == [k \in {} |-> k]

\* `${x}` of an optional number
Template(t) == IF t = Undefined THEN "undefined" ELSE ToString(t)

\* ------------------------------------------------------------- structure.ts
\* A candidate value handed to createHandler as a command.
\*   kind        "object" | "null" | "other"        (typeof value, value === null)
\*   nameT       typeof value.name ("string" or not)
\*   descT       "undefined" | "string" | "truthy" (a truthy non-string)
\*   options     "absent" | "empty" | "nonempty" | "nonarray"
\*   execute     an executor's identity, or NotCallable
CommandValue(kind, nameT, name, type, descT, description, options, execute) ==
    [kind |-> kind, nameT |-> nameT, name |-> name, type |-> type, descT |-> descT,
     description |-> description, options |-> options, execute |-> execute]

ComponentValue(kind, nameT, name, execute) ==
    [kind |-> kind, nameT |-> nameT, name |-> name, execute |-> execute]

\* if (value.description): a non-empty string, or any other truthy value
DescriptionTruthy(value) ==
    \/ value.descT = "string" /\ Len(value.description) > 0
    \/ value.descT = "truthy"

\* Array.isArray(value.options) ? value.options.length > 0 : value.options !== undefined
OptionsPresent(value) == value.options \in {"nonempty", "nonarray"}

isCommand(value) ==
    IF value.kind # "object" THEN FALSE
    ELSE IF value.nameT # "string" \/ Len(value.name) = 0 THEN FALSE
    ELSE IF value.type \in {Undefined, ChatInput, PrimaryEntryPoint}
         THEN IF value.descT # "string" \/ Len(value.description) = 0 THEN FALSE
              ELSE value.execute # NotCallable
         ELSE IF DescriptionTruthy(value) THEN FALSE
              ELSE IF OptionsPresent(value) THEN FALSE
              ELSE value.execute # NotCallable

getCommandName(cmd) ==
    cmd.name \o " (type: "
        \o Template(IF cmd.type = Undefined THEN ChatInput ELSE cmd.type) \o ")"

getInteractionName(int) ==
    int.name \o " (type: " \o Template(int.dtype) \o ")"

RECURSIVE ReduceCommands(_, _)
ReduceCommands(acc, cmds) ==
    IF cmds = <<>> THEN acc
    ELSE LET cmd == Head(cmds)
             name == getCommandName(cmd)
         IN  IF ~isCommand(cmd) THEN ReduceCommands(acc, Tail(cmds))
             ELSE IF HasTruthy(acc, name) THEN ReduceCommands(acc, Tail(cmds))
             ELSE ReduceCommands(Spread(acc, name, cmd), Tail(cmds))

\* A reduce that lets a later entry replace the one indexed under its key.
RECURSIVE ReduceCommands_LastWins(_, _)
ReduceCommands_LastWins(acc, cmds) ==
    IF cmds = <<>> THEN acc
    ELSE IF ~isCommand(Head(cmds)) THEN ReduceCommands_LastWins(acc, Tail(cmds))
    ELSE ReduceCommands_LastWins(Spread(acc, getCommandName(Head(cmds)), Head(cmds)),
                                 Tail(cmds))

validateCommands_LastWins(cmds) == ReduceCommands_LastWins(EmptyObject, cmds)

validateCommands(cmds) == ReduceCommands(EmptyObject, cmds)

\* isComponent without its check of execute.
isComponent_AnyExecute(value) ==
    IF value.kind # "object" THEN FALSE
    ELSE IF value.nameT # "string" \/ Len(value.name) = 0 THEN FALSE
    ELSE TRUE

isComponent(value) ==
    IF value.kind # "object" THEN FALSE
    ELSE IF value.nameT # "string" \/ Len(value.name) = 0 THEN FALSE
    ELSE IF value.execute = NotCallable THEN FALSE
    ELSE TRUE

RECURSIVE ReduceComponents(_, _)
ReduceComponents(acc, cmps) ==
    IF cmps = <<>> THEN acc
    ELSE LET cmp == Head(cmps)
         IN  IF ~isComponent(cmp) THEN ReduceComponents(acc, Tail(cmps))
             ELSE IF HasTruthy(acc, cmp.name) THEN ReduceComponents(acc, Tail(cmps))
             ELSE ReduceComponents(Spread(acc, cmp.name, cmp), Tail(cmps))

validateComponents(cmps) == ReduceComponents(EmptyObject, cmps)

\* ------------------------------------------------------------ the dispatcher
VARIABLES
    commands,      \* cmds: the command index createHandler built
    components,    \* cmps: the component index createHandler built
    calls,         \* inbound calls started so far
    pc,            \* where the current call is suspended
    request,       \* the current call's request
    sentry,        \* whether the caller supplied an error sink for this call
    verified,      \* isValidRequest resolved true in this call
    parsed,        \* request.json() produced an interaction in this call
    lookups,       \* index keys read in this call, in order
    invoked,       \* executors called in this call, in order
    logged,        \* console.error calls of this call
    captured,      \* sentry.captureException calls of this call
    threw,         \* the call of execute threw synchronously
    settled,       \* how a promise returned by the executor settled
    result,        \* what the async function bodies returned or threw
    outcome,       \* what the caller of the request handler received
    task,          \* the promise handed to wait: none, running, done, failed
    taskCalls,     \* edit / follow-up requests the task has issued
    \* --- registerCommands (the registry sync engine) and the remote API
    desired,         \* the commands argument of registerCommands
    remote,          \* the commands Discord holds for the scope
    nextId,          \* the id Discord gives the next command it creates
    run,             \* which run of registerCommands this is
    spc,             \* where the run is suspended
    phase,           \* the loop the run is in: remove, patch, create
    idx,             \* i, the loop counter
    discordCommands, \* what getCommands returned
    commandData,     \* the records the run has collected
    log,             \* the remote calls the run has issued, in order
    inflight,        \* remote calls issued and not yet returned
    now,             \* milliseconds the run has spent in setTimeout
    \* --- one application of a function of structure.ts or register.ts
    args,            \* the function applied and its arguments
    applied,         \* the function has returned
    ret,             \* what it returned
    \* --- runs of registerCommands that execute at the same time
    peers,           \* for each such run, where it is and what it holds
    \* --- the handler of the revision that imports its key itself
    keyring          \* calls of importKey, the key createHandler holds, the
                     \* keys calls were verified against, and how many were

dispatchVars == <<commands, components, calls, pc, request, sentry, verified, parsed,
                  lookups, invoked, logged, captured, threw, settled, result,
                  outcome, task, taskCalls>>

syncVars == <<desired, remote, nextId, run, spc, phase, idx, discordCommands,
              commandData, log, inflight, now>>

pureVars == <<args, applied, ret>>

concVars == <<peers>>

keyVars == <<keyring>>

vars == <<dispatchVars, syncVars, pureVars, concVars, keyVars>>

\* The handler imports no key itself.
KeyOff == keyring = [imports |-> 0, handler |-> "none", used |-> {}, checks |-> 0]

\* No two runs of registerCommands execute at the same time.
ConcOff == peers = <<>>

\* No function is applied on its own.
PureOff ==
    /\ args = [fn |-> "none"]
    /\ applied = FALSE
    /\ ret = FALSE

\* registerCommands is not running.
SyncOff ==
    /\ desired = <<>>
    /\ remote = <<>>
    /\ nextId = 0
    /\ run = 0
    /\ spc = "off"
    /\ phase = "none"
    /\ idx = 0
    /\ discordCommands = <<>>
    /\ commandData = <<>>
    /\ log = <<>>
    /\ inflight = 0
    /\ now = 0

\* new Response(body, { status })
Response(status, body) == [kind |-> "response", status |-> status, body |-> body]
\* jsonResponse(obj)
jsonResponse(obj) == Response(200, obj)
NoResult == [kind |-> "none", status |-> 0, body |-> ""]
\* an async function that returned nothing
ResolvedUndefined == [kind |-> "undefined", status |-> 0, body |-> ""]
\* an exception leaving an async function, or a rejected promise it returned
Rejected == [kind |-> "rejected", status |-> 0, body |-> ""]
\* a promise, still pending, returned by an executor
PendingPromise == [kind |-> "promise", status |-> 0, body |-> ""]

\* What an executor (application code) does when called:
\*   sync   "return": returns a Response; "throw": throws;
\*          "promise": returns a promise (an async executor)
\*   wait   it calls wait(task) before that
\*   eager  the task issues an edit / follow-up request before its first
\*          suspension, i.e. while the executor is still running
Behaviours ==
    {b \in [sync : {"return", "throw", "promise"}, wait : BOOLEAN, eager : BOOLEAN] :
        b.eager => b.wait}

\* calling a value that is not a function throws a TypeError
TypeErrorBehaviour == [sync |-> "throw", wait |-> FALSE, eager |-> FALSE]

\* What one run of a handle*Interaction body did.
Effects(keys, fns, thrown, errors, sink, res, t, n) ==
    [lookups |-> keys, invoked |-> fns, threw |-> thrown, logged |-> errors,
     captured |-> sink, result |-> res, task |-> t, taskCalls |-> n]

NoEffects == Effects(<<>>, <<>>, FALSE, 0, 0, NoResult, "none", 0)

\* Mutant: the catch block lets the error go on instead of answering.
CommandErrorResponse_Rethrown == Rejected

\* An error message that quotes the interaction it failed on.
CommandErrorResponse_EchoesPayload == jsonResponse(request.body.name)

\* The fixed ephemeral message a failed command is answered with.
CommandErrorResponse == jsonResponse("ephemeral-error")

\* The bare 500 a failed component is answered with.
ComponentErrorResponse == Response(500, "")

\* try { return entry.execute({...}) } catch (err) { ... return onError }
\* There is no await inside the try: a promise the executor returns is
\* handed back as it is, and only a synchronous throw reaches the catch.
TryExecute(index, key, s, beh, onError) ==
    LET fn == ExecuteOf(index, key)
        b == IF fn = NotCallable THEN TypeErrorBehaviour ELSE beh
        thrown == b.sync = "throw"
    IN  Effects(<<key>>,
                IF fn = NotCallable THEN <<>> ELSE <<fn>>,
                thrown,
                IF thrown THEN 1 ELSE 0,
                IF thrown /\ s THEN 1 ELSE 0,
                CASE b.sync = "throw" -> onError
                  [] b.sync = "return" -> jsonResponse("handler")
                  [] b.sync = "promise" -> PendingPromise,
                IF b.wait THEN "running" ELSE "none",
                IF b.eager THEN 1 ELSE 0)

handleCommandInteraction(interaction, cmds, s, beh) ==
    LET name == getInteractionName(interaction)
    IN  IF ~HasTruthy(cmds, name)
        THEN Effects(<<name>>, <<>>, FALSE, 0, 0, Response(404, ""), "none", 0)
        ELSE TryExecute(cmds, name, s, beh, CommandErrorResponse)

handleComponentInteraction(interaction, cmps, s, beh) ==
    IF ~HasTruthy(cmps, interaction.custom_id)
    THEN Effects(<<interaction.custom_id>>, <<>>, FALSE, 0, 0, Response(404, ""),
                 "none", 0)
    ELSE TryExecute(cmps, interaction.custom_id, s, beh, ComponentErrorResponse)

\* Mutant: the Ping case is missing, so a Ping is handled as a command.
InteractionSwitch_PingAsCommand(interaction, cmds, cmps, s, beh) ==
    CASE interaction.type \in {Ping, ApplicationCommand} ->
            handleCommandInteraction(interaction, cmds, s, beh)
      [] interaction.type = MessageComponent ->
            handleComponentInteraction(interaction, cmps, s, beh)
      [] OTHER ->
            [NoEffects EXCEPT !.result = Response(501, "")]

\* Mutant: the default case is missing, so the function returns nothing.
InteractionSwitch_NoDefault(interaction, cmds, cmps, s, beh) ==
    CASE interaction.type = Ping ->
            [NoEffects EXCEPT !.result = jsonResponse("pong")]
      [] interaction.type = ApplicationCommand ->
            handleCommandInteraction(interaction, cmds, s, beh)
      [] interaction.type = MessageComponent ->
            handleComponentInteraction(interaction, cmps, s, beh)
      [] OTHER ->
            [NoEffects EXCEPT !.result = ResolvedUndefined]

\* switch (interaction.type) { ... }
InteractionSwitch(interaction, cmds, cmps, s, beh) ==
    CASE interaction.type = Ping ->
            [NoEffects EXCEPT !.result = jsonResponse("pong")]
      [] interaction.type = ApplicationCommand ->
            handleCommandInteraction(interaction, cmds, s, beh)
      [] interaction.type = MessageComponent ->
            handleComponentInteraction(interaction, cmps, s, beh)
      [] OTHER ->
            [NoEffects EXCEPT !.result = Response(501, "")]

\* ------------------------------------------------------------------ inputs
\* The body of a request: text that is not JSON, the JSON text "null", or
\* an interaction object.  dtype is data.type (Undefined when absent).
Body(json, type, name, dtype, custom_id) ==
    [json |-> json, type |-> type, name |-> name, dtype |-> dtype,
     custom_id |-> custom_id]

NotJson == Body("invalid", Undefined, "", Undefined, "")
JsonNull == Body("null", Undefined, "", Undefined, "")

InteractionNames == {"ping", "nope"}
InteractionCustomIds == {"ping", "nope", "constructor"}

Interactions ==
    {Body("object", Ping, "", Undefined, "")}
    \cup {Body("object", ApplicationCommand, n, t, "") :
              n \in InteractionNames, t \in {Undefined, ChatInput, User}}
    \cup {Body("object", MessageComponent, "", Undefined, c) :
              c \in InteractionCustomIds}
    \cup {Body("object", t, "", Undefined, "") :
              t \in {Undefined, ApplicationCommandAutocomplete}}

Bodies == {NotJson, JsonNull} \cup Interactions

Req(method, path, signed, body) ==
    [method |-> method, path |-> path, signed |-> signed, body |-> body]

NoRequest == Req("", "", FALSE, NotJson)

Requests ==
    {Req("POST", "/interactions", sg, b) : sg \in BOOLEAN, b \in Bodies}
    \cup {Req("GET", "/health", FALSE, NotJson),
          Req("GET", "/interactions", FALSE, NotJson),
          Req("POST", "/health", FALSE, NotJson),
          Req("POST", "/", TRUE, Body("object", ApplicationCommand, "ping", ChatInput, "")),
          Req("PUT", "/interactions", TRUE,
              Body("object", ApplicationCommand, "ping", ChatInput, ""))}

\* The values createHandler may be given.
CommandPool ==
    {CommandValue("object", "string", "ping", Undefined, "string", "Ping", "absent", "cmdA"),
     CommandValue("object", "string", "ping", ChatInput, "string", "Ping again", "empty", "cmdB"),
     CommandValue("object", "string", "ping", User, "undefined", "", "absent", "cmdC"),
     CommandValue("object", "string", "ping", Undefined, "undefined", "", "absent", "cmdD")}

ComponentPool ==
    {ComponentValue("object", "string", "ping", "cmpA"),
     ComponentValue("object", "string", "ping", "cmpB"),
     ComponentValue("object", "string", "constructor", "cmpC"),
     ComponentValue("object", "string", "nope", NotCallable)}

ListsOf(pool, n) == UNION {[1..k -> pool] : k \in 0..n}

\* isValidRequest(request, publicKey, PlatformAlgorithm.Cloudflare): the
\* Ed25519 check of discord-verify, true for a request carrying a valid
\* signature of its timestamp and body under the handler's key.
isValidRequest(req) == req.signed

\* ------------------------------------------------------------------ actions
\* createHandler(commands, components, publicKey)
Init ==
    /\ \E cs \in ListsOf(CommandPool, MaxCommands) : commands = validateCommands(cs)
    /\ \E ps \in ListsOf(ComponentPool, MaxComponents) : components = validateComponents(ps)
    /\ SyncOff
    /\ PureOff
    /\ ConcOff
    /\ KeyOff
    /\ calls = 0
    /\ pc = "idle"
    /\ request = NoRequest
    /\ sentry = FALSE
    /\ verified = FALSE
    /\ parsed = FALSE
    /\ lookups = <<>>
    /\ invoked = <<>>
    /\ logged = 0
    /\ captured = 0
    /\ threw = FALSE
    /\ settled = "none"
    /\ result = NoResult
    /\ outcome = NoResult
    /\ task = "none"
    /\ taskCalls = 0

\* Mutant: every POST is taken for an interaction, whatever its path.
HandleRequest_AnyPost ==
    /\ pc \in {"idle", "done"}
    /\ calls < MaxCalls
    /\ \E req \in Requests, s \in BOOLEAN :
        /\ request' = req
        /\ sentry' = s
        /\ IF req.method = "POST"
           THEN pc' = "verifying" /\ result' = NoResult
           ELSE IF req.method = "GET" /\ req.path = "/health"
           THEN pc' = "returned" /\ result' = Response(200, "OK")
           ELSE pc' = "returned" /\ result' = ResolvedUndefined
    /\ calls' = calls + 1
    /\ verified' = FALSE
    /\ parsed' = FALSE
    /\ lookups' = <<>>
    /\ invoked' = <<>>
    /\ logged' = 0
    /\ captured' = 0
    /\ threw' = FALSE
    /\ settled' = "none"
    /\ outcome' = NoResult
    /\ task' = "none"
    /\ taskCalls' = 0
    /\ UNCHANGED <<syncVars, pureVars, concVars, keyVars>>
    /\ UNCHANGED <<commands, components>>

\* The handler createHandler returned is called: handleRequest runs up to
\* its first suspension.  The previous call is over; everything observed
\* about it is forgotten.
HandleRequest ==
    /\ pc \in {"idle", "done"}
    /\ calls < MaxCalls
    /\ \E req \in Requests, s \in BOOLEAN :
        /\ request' = req
        /\ sentry' = s
        /\ IF req.method = "POST" /\ req.path = "/interactions"
           THEN pc' = "verifying" /\ result' = NoResult
           ELSE IF req.method = "GET" /\ req.path = "/health"
           THEN pc' = "returned" /\ result' = Response(200, "OK")
           ELSE pc' = "returned" /\ result' = ResolvedUndefined
    /\ calls' = calls + 1
    /\ verified' = FALSE
    /\ parsed' = FALSE
    /\ lookups' = <<>>
    /\ invoked' = <<>>
    /\ logged' = 0
    /\ captured' = 0
    /\ threw' = FALSE
    /\ settled' = "none"
    /\ outcome' = NoResult
    /\ task' = "none"
    /\ taskCalls' = 0
    /\ UNCHANGED <<syncVars, pureVars, concVars, keyVars>>
    /\ UNCHANGED <<commands, components>>

\* Mutant: the result of the verification is not acted on.
Verify_NoGate ==
    /\ pc = "verifying"
    /\ verified' = isValidRequest(request)
    /\ pc' = "parsing"
    /\ UNCHANGED <<syncVars, pureVars, concVars, keyVars>>
    /\ UNCHANGED <<commands, components, calls, request, sentry, parsed, lookups,
                   invoked, logged, captured, threw, settled, result, outcome, task,
                   taskCalls>>

\* handleInteraction, resumed after `await isValidRequest(...)`.
Verify ==
    /\ pc = "verifying"
    /\ IF ~isValidRequest(request)
       THEN /\ result' = Response(401, "")
            /\ pc' = "returned"
            /\ UNCHANGED verified
       ELSE /\ verified' = TRUE
            /\ pc' = "parsing"
            /\ UNCHANGED result
    /\ UNCHANGED <<syncVars, pureVars, concVars, keyVars>>
    /\ UNCHANGED <<commands, components, calls, request, sentry, parsed, lookups,
                   invoked, logged, captured, threw, settled, outcome, task,
                   taskCalls>>

\* The index with the entries under the given keys deleted.
Without(index, keys) ==
    [k \in DOMAIN index \ {keys[j] : j \in 1..Len(keys)} |-> index[k]]

\* A dispatcher that takes an entry whose executor threw out of its index.
HandleInteraction_DropsFailed ==
    /\ pc = "parsing"
    /\ IF request.body.json = "invalid"
       THEN /\ result' = Rejected
            /\ pc' = "returned"
            /\ UNCHANGED <<parsed, lookups, invoked, logged, captured, threw, task,
                           taskCalls, commands, components>>
       ELSE IF request.body.json = "null"
       THEN /\ parsed' = TRUE
            /\ result' = Rejected
            /\ pc' = "returned"
            /\ UNCHANGED <<lookups, invoked, logged, captured, threw, task, taskCalls,
                           commands, components>>
       ELSE \E beh \in Behaviours :
            LET e == InteractionSwitch(request.body, commands, components, sentry, beh)
            IN  /\ parsed' = TRUE
                /\ lookups' = e.lookups
                /\ invoked' = e.invoked
                /\ logged' = e.logged
                /\ captured' = captured + e.captured
                /\ threw' = e.threw
                /\ task' = e.task
                /\ taskCalls' = e.taskCalls
                /\ result' = e.result
                /\ pc' = IF e.result.kind = "promise" THEN "executing" ELSE "returned"
                /\ commands' = IF e.threw THEN Without(commands, e.lookups)
                               ELSE commands
                /\ components' = IF e.threw THEN Without(components, e.lookups)
                                 ELSE components
    /\ UNCHANGED <<syncVars, pureVars, concVars, keyVars>>
    /\ UNCHANGED <<calls, request, sentry, verified, settled, outcome>>

\* handleInteraction, resumed after `await request.json()`: the switch, and
\* with it the whole body of handleCommandInteraction or
\* handleComponentInteraction, which has no suspension point of its own, so
\* the executor's synchronous part runs here too.
HandleInteraction ==
    /\ pc = "parsing"
    /\ IF request.body.json = "invalid"
       THEN \* request.json() rejects with a SyntaxError
            /\ result' = Rejected
            /\ pc' = "returned"
            /\ UNCHANGED <<parsed, lookups, invoked, logged, captured, threw, task,
                           taskCalls>>
       ELSE IF request.body.json = "null"
       THEN \* interaction.type of null: a TypeError
            /\ parsed' = TRUE
            /\ result' = Rejected
            /\ pc' = "returned"
            /\ UNCHANGED <<lookups, invoked, logged, captured, threw, task, taskCalls>>
       ELSE \E beh \in Behaviours :
            LET e == InteractionSwitch(request.body, commands, components, sentry, beh)
            IN  /\ parsed' = TRUE
                /\ lookups' = e.lookups
                /\ invoked' = e.invoked
                /\ logged' = e.logged
                /\ captured' = captured + e.captured
                /\ threw' = e.threw
                /\ task' = e.task
                /\ taskCalls' = e.taskCalls
                /\ result' = e.result
                /\ pc' = IF e.result.kind = "promise" THEN "executing" ELSE "returned"
    /\ UNCHANGED <<syncVars, pureVars, concVars, keyVars>>
    /\ UNCHANGED <<commands, components, calls, request, sentry, verified, settled,
                   outcome>>

\* The promise an async executor returned settles.  It was returned from
\* inside the try without being awaited, so the async function's own promise
\* follows it: fulfilled with the executor's Response, or rejected.
HandlerSettles ==
    /\ pc = "executing"
    /\ \E ok \in BOOLEAN :
        /\ settled' = IF ok THEN "fulfilled" ELSE "rejected"
        /\ result' = IF ok THEN jsonResponse("handler") ELSE Rejected
    /\ pc' = "returned"
    /\ UNCHANGED <<syncVars, pureVars, concVars, keyVars>>
    /\ UNCHANGED <<commands, components, calls, request, sentry, verified, parsed,
                   lookups, invoked, logged, captured, threw, outcome, task,
                   taskCalls>>

\* Mutant: the dispatcher awaits the task handed to wait before it answers.
Complete_AwaitsTask ==
    /\ pc = "returned"
    /\ task # "running"
    /\ outcome' = result
    /\ pc' = "done"
    /\ UNCHANGED <<syncVars, pureVars, concVars, keyVars>>
    /\ UNCHANGED <<commands, components, calls, request, sentry, verified, parsed,
                   lookups, invoked, logged, captured, threw, settled, result,
                   task, taskCalls>>

\* The promise the request handler returned settles: its caller receives the
\* Response (or undefined, or the exception).
Complete ==
    /\ pc = "returned"
    /\ outcome' = result
    /\ pc' = "done"
    /\ UNCHANGED <<syncVars, pureVars, concVars, keyVars>>
    /\ UNCHANGED <<commands, components, calls, request, sentry, verified, parsed,
                   lookups, invoked, logged, captured, threw, settled, result,
                   task, taskCalls>>

\* The task handed to wait issues an edit (editDeferred) or a follow-up
\* (sendAdditional) request.
TaskCall ==
    /\ task = "running"
    /\ taskCalls < MaxTaskCalls
    /\ taskCalls' = taskCalls + 1
    /\ UNCHANGED <<syncVars, pureVars, concVars, keyVars>>
    /\ UNCHANGED <<commands, components, calls, pc, request, sentry, verified,
                   parsed, lookups, invoked, logged, captured, threw, settled,
                   result, outcome, task>>

\* The task handed to wait finishes or fails.
TaskEnds ==
    /\ task = "running"
    /\ \E t \in {"done", "failed"} : task' = t
    /\ UNCHANGED <<syncVars, pureVars, concVars, keyVars>>
    /\ UNCHANGED <<commands, components, calls, pc, request, sentry, verified,
                   parsed, lookups, invoked, logged, captured, threw, settled,
                   result, outcome, taskCalls>>

Next ==
    \/ HandleRequest
    \/ Verify
    \/ HandleInteraction
    \/ HandlerSettles
    \/ Complete
    \/ TaskCall
    \/ TaskEnds

Spec == Init /\ [][Next]_vars

\* The event loop resumes a continuation whose awaited promise has settled:
\* the verification and the body read complete, and a settled result reaches
\* the caller.  Nothing makes an executor's promise settle, a deferred task
\* progress, or another request arrive.
FairSpec ==
    /\ Spec
    /\ WF_vars(Verify)
    /\ WF_vars(HandleInteraction)
    /\ WF_vars(Complete)

\* ------------------------------------------------------------------ claims
\* The current call is a POST /interactions call.
InteractionCall ==
    /\ pc # "idle"
    /\ request.method = "POST"
    /\ request.path = "/interactions"

\* The current call has run the switch on a parsed interaction object.
Dispatched ==
    /\ InteractionCall
    /\ parsed
    /\ request.body.json = "object"

\* type ?? ChatInput
TypeOrChatInput(t) == IF t = Undefined THEN ChatInput ELSE t

\* C1: a call whose verification fails is answered 401 without the body
\* being parsed, a key being looked up or an executor being called; any
\* parsing, lookup or invocation happens in a call whose verification
\* succeeded.
C1_VerificationGate ==
    InteractionCall =>
        /\ (pc \in {"returned", "done"} /\ ~request.signed) =>
                /\ result = [kind |-> "response", status |-> 401, body |-> ""]
                /\ ~parsed
                /\ lookups = <<>>
                /\ invoked = <<>>
        /\ (pc = "done" /\ ~request.signed) =>
                outcome = [kind |-> "response", status |-> 401, body |-> ""]
        /\ (parsed \/ lookups # <<>> \/ invoked # <<>> \/ pc = "parsing") =>
                verified /\ request.signed

\* C1 witness: an unsigned command interaction for a registered command was
\* answered 401.
C1_Witness ==
    /\ InteractionCall
    /\ pc = "done"
    /\ ~request.signed
    /\ request.body.json = "object"
    /\ request.body.type = ApplicationCommand
    /\ getInteractionName(request.body) \in DOMAIN commands
    /\ outcome.status = 401
    /\ invoked = <<>>

\* C2: a verified command or component interaction whose key is not
\* registered is answered 404 with no executor called; one whose key is
\* registered calls exactly the executor registered under it, once.
C2_RoutingByRegisteredKey ==
    (Dispatched /\ request.body.type \in {ApplicationCommand, MessageComponent}) =>
        LET index == IF request.body.type = ApplicationCommand
                     THEN commands ELSE components
            key == IF request.body.type = ApplicationCommand
                   THEN getInteractionName(request.body)
                   ELSE request.body.custom_id
        IN  IF key \notin DOMAIN index
            THEN /\ invoked = <<>>
                 /\ result = [kind |-> "response", status |-> 404, body |-> ""]
            ELSE invoked = <<index[key].execute>>

\* C3: when a registered executor throws synchronously the call is answered
\* with the ephemeral error message (command) or an empty 500 (component),
\* the error is logged, reported to the sink when there is one, and does
\* not reach the caller.
C3_SyncThrowAnswered ==
    (Dispatched /\ threw /\ invoked # <<>>) =>
        /\ pc \in {"returned", "done"}
        /\ result = IF request.body.type = ApplicationCommand
                    THEN [kind |-> "response", status |-> 200, body |-> "ephemeral-error"]
                    ELSE [kind |-> "response", status |-> 500, body |-> ""]
        /\ logged = 1
        /\ captured = IF sentry THEN 1 ELSE 0
        /\ pc = "done" => outcome = result

\* C3 witness: a registered command threw, a sink was supplied, and the
\* caller received the ephemeral error message.
C3_Witness ==
    /\ Dispatched
    /\ pc = "done"
    /\ request.body.type = ApplicationCommand
    /\ threw
    /\ invoked # <<>>
    /\ sentry
    /\ captured = 1
    /\ outcome.kind = "response"
    /\ outcome.body = "ephemeral-error"

\* C4: when the promise an executor returned rejects, the call is answered
\* as for a synchronous throw and the rejection does not reach the caller.
C4_AsyncRejectionAnswered ==
    (Dispatched /\ settled = "rejected") =>
        /\ result = IF request.body.type = ApplicationCommand
                    THEN [kind |-> "response", status |-> 200, body |-> "ephemeral-error"]
                    ELSE [kind |-> "response", status |-> 500, body |-> ""]
        /\ pc = "done" => outcome = result

\* C5: every POST /interactions call that has ended gave its caller one
\* response, with status 200, 401, 404, 500 or 501; no exception escaped.
C5_CallEndsWithResponse ==
    (InteractionCall /\ pc = "done") =>
        /\ outcome.kind = "response"
        /\ outcome.status \in {200, 401, 404, 500, 501}

\* C6: a verified Ping is answered with the fixed Pong, whatever is
\* registered, with no key looked up and no executor called.
C6_PingIsPong ==
    (Dispatched /\ request.body.type = Ping) =>
        /\ pc \in {"returned", "done"}
        /\ result = [kind |-> "response", status |-> 200, body |-> "pong"]
        /\ lookups = <<>>
        /\ invoked = <<>>
        /\ pc = "done" => outcome = result

\* C6 witness: a Ping was answered Pong by a handler with a command and a
\* component registered.
C6_Witness ==
    /\ Dispatched
    /\ pc = "done"
    /\ request.body.type = Ping
    /\ DOMAIN commands # {}
    /\ DOMAIN components # {}
    /\ outcome.body = "pong"

\* C7: a verified interaction of any other type is answered with an empty
\* 501, with no key looked up and no executor called.
C7_UnknownTypeIs501 ==
    (Dispatched /\ request.body.type \notin {Ping, ApplicationCommand, MessageComponent}) =>
        /\ pc \in {"returned", "done"}
        /\ result = [kind |-> "response", status |-> 501, body |-> ""]
        /\ lookups = <<>>
        /\ invoked = <<>>
        /\ pc = "done" => outcome = result

\* C7 witness: an autocomplete interaction was answered 501.
C7_Witness ==
    /\ Dispatched
    /\ pc = "done"
    /\ request.body.type = ApplicationCommandAutocomplete
    /\ DOMAIN commands # {}
    /\ outcome.status = 501

\* C8: a verified command interaction reaches registered command c exactly
\* when the names are equal and the types, each chat-input when absent, are
\* equal; a component interaction is routed by custom_id alone.
C8_SameKeyForRegistrationAndRouting ==
    /\ (Dispatched /\ request.body.type = ApplicationCommand) =>
            \A k \in DOMAIN commands :
                (invoked = <<commands[k].execute>>) <=>
                    /\ request.body.name = commands[k].name
                    /\ TypeOrChatInput(request.body.dtype)
                            = TypeOrChatInput(commands[k].type)
    /\ (Dispatched /\ request.body.type = MessageComponent) =>
            \A k \in DOMAIN components :
                (invoked = <<components[k].execute>>) <=>
                    request.body.custom_id = components[k].name

\* C9: no edit or follow-up request of a deferred task is issued before the
\* caller has received the call's response.
C9_ResponseBeforeTaskEffects ==
    taskCalls > 0 => (pc = "done" /\ outcome.kind = "response")

\* C10: the dispatcher does not await the task handed to wait: a call whose
\* result is there reaches its caller whether or not the task ever ends, and
\* nothing the task does afterwards changes what the caller received.
C10_TaskNeverAwaited ==
    /\ (pc = "returned") ~> (pc = "done")
    /\ [][(pc = "done" /\ pc' = "done") => outcome' = outcome]_vars

\* C10 witness: the caller has its response while the task is still running
\* and has issued nothing yet.
C10_Witness ==
    /\ Dispatched
    /\ pc = "done"
    /\ outcome.kind = "response"
    /\ outcome.body = "handler"
    /\ task = "running"
    /\ taskCalls = 0

\* ------------------------------------------------------------- register.ts
\* The registry sync engine: registerCommands and what it calls.

MaxDesired == 2     \* length of the commands argument of registerCommands
MaxStale == 6       \* remote commands that no desired command names
MaxRuns == 2        \* runs of registerCommands, one after the other

\* const ratelimit = 20_000 / 5
ratelimit == 20000 \div 5

\* An optional value: undefined, or the value v.
NoString == [present |-> FALSE, v |-> ""]
NoList == [present |-> FALSE, v |-> <<>>]
Some(x) == [present |-> TRUE, v |-> x]

\* An APIApplicationCommandOption.  required and autocomplete are "absent",
\* "false" or "true"; choices and options are optional lists.  autocomplete
\* stands for the fields of an option beyond the six of the Option
\* interface (autocomplete, min_value, max_length, channel_types, ...).
Option(type, name, description, required, choices, options, autocomplete) ==
    [type |-> type, name |-> name, description |-> description,
     required |-> required, choices |-> choices, options |-> options,
     autocomplete |-> autocomplete]

\* A command given to registerCommands: a candidate Command value together
\* with its option list and contexts.
SyncCommand(name, type, description, opts, installation, interaction, execute) ==
    [kind |-> "object", nameT |-> "string", name |-> name, type |-> type,
     descT |-> IF description.present THEN "string" ELSE "undefined",
     description |-> description.v,
     options |-> IF ~opts.present THEN "absent"
                 ELSE IF Len(opts.v) = 0 THEN "empty" ELSE "nonempty",
     execute |-> execute,
     opts |-> opts, installation |-> installation, interaction |-> interaction]

\* command.description
DescriptionOf(cmd) == IF cmd.descT = "string" THEN Some(cmd.description) ELSE NoString

\* An APIApplicationCommand as Discord holds and returns it.
RemoteCommand(id, name, type, description, options, integration_types, contexts) ==
    [id |-> id, name |-> name, type |-> type, description |-> description,
     options |-> options, integration_types |-> integration_types,
     contexts |-> contexts]

RECURSIVE consistentCommandOption(_)
consistentCommandOption(obj) ==
    [type |-> obj.type,
     name |-> obj.name,
     description |-> obj.description,
     required |-> (obj.required = "true"),
     choices |-> IF obj.choices.present THEN obj.choices.v ELSE <<>>,
     options |-> IF obj.options.present
                 THEN [j \in 1..Len(obj.options.v) |->
                            consistentCommandOption(obj.options.v[j])]
                 ELSE <<>>]

\* options?.map(consistentCommandOption)
MapOptions(opts) ==
    IF opts.present
    THEN Some([j \in 1..Len(opts.v) |-> consistentCommandOption(opts.v[j])])
    ELSE NoList

\* [...set].sort()
RECURSIVE SortSet(_)
SortSet(S) ==
    IF S = {} THEN <<>>
    ELSE LET m == CHOOSE x \in S : \A y \in S : x <= y
         IN  <<m>> \o SortSet(S \ {m})

\* The lists compared as they are written.
consistentContexts_AsWritten(arr) == arr

\* arr && [ ...new Set(arr) ].sort()
consistentContexts(arr) ==
    IF arr.present THEN Some(SortSet({arr.v[j] : j \in 1..Len(arr.v)})) ELSE arr

\* The keys updatedCommandProps sets on its patch object: the fields of the
\* remote command (oldCmd) that differ from the desired command (newCmd).
updatedCommandProps(oldCmd, newCmd) ==
    (IF oldCmd.name # newCmd.name THEN {"name"} ELSE {})
    \cup (IF oldCmd.type # TypeOrChatInput(newCmd.type) THEN {"type"} ELSE {})
    \cup (IF oldCmd.description # DescriptionOf(newCmd) THEN {"description"} ELSE {})
    \cup (IF MapOptions(oldCmd.options) # MapOptions(newCmd.opts)
          THEN {"options"} ELSE {})
    \cup (IF consistentContexts(oldCmd.integration_types)
                # consistentContexts(newCmd.installation)
          THEN {"integration_types"} ELSE {})
    \cup (IF consistentContexts(oldCmd.contexts) # consistentContexts(newCmd.interaction)
          THEN {"contexts"} ELSE {})

\* The fields of a create body, which are also those a patch may carry.
BodyFields == {"name", "type", "description", "options", "integration_types", "contexts"}

\* Whether the value a body carries for a field, taken from the desired
\* command, is defined.
FieldDefined(key, cmd) ==
    CASE key = "name" -> TRUE
      [] key = "type" -> cmd.type # Undefined
      [] key = "description" -> cmd.descT = "string"
      [] key = "options" -> cmd.opts.present
      [] key = "integration_types" -> cmd.installation.present
      [] key = "contexts" -> cmd.interaction.present

\* JSON.stringify(data) in api(): a key whose value is undefined is left out.
JsonKeys(keys, cmd) == {k \in keys : FieldDefined(k, cmd)}

\* Object.values(validateCommands(commands)): the accepted commands, in the
\* order they were inserted.
ObjectValues(obj, cmds) ==
    LET Inserted(i) ==
            /\ getCommandName(cmds[i]) \in DOMAIN obj
            /\ obj[getCommandName(cmds[i])] = cmds[i]
            /\ \A j \in 1..(i - 1) : cmds[j] # cmds[i]
        RECURSIVE Upto(_)
        Upto(n) == IF n = 0 THEN <<>>
                   ELSE IF Inserted(n) THEN Append(Upto(n - 1), cmds[n])
                   ELSE Upto(n - 1)
    IN  Upto(Len(cmds))

Range(seq) == {seq[j] : j \in 1..Len(seq)}

\* A remove loop that clears everything Discord holds, the commands that
\* are about to be patched included.
ToRemove_All(dc, cmds) == dc

\* discordCommands.filter(cmd => !cmds.find(c => c.name === cmd.name))
ToRemove(dc, cmds) ==
    LET Gone(cmd) == ~\E c \in Range(cmds) : c.name = cmd.name
    IN  SelectSeq(dc, Gone)

\* c.name === command.name && c.type === (command.type ?? ChatInput)
\* Matching by name alone, as the remove filter does.
Matches_NameOnly(c, command) == c.name = command.name

Matches(c, command) ==
    c.name = command.name /\ c.type = TypeOrChatInput(command.type)

\* discordCommands.find(...): the index of the first match, 0 for undefined.
FindDiscord(dc, command) ==
    IF \E j \in 1..Len(dc) : Matches(dc[j], command)
    THEN CHOOSE j \in 1..Len(dc) :
            /\ Matches(dc[j], command)
            /\ \A k \in 1..(j - 1) : ~Matches(dc[k], command)
    ELSE 0

\* The diff of a desired command against the remote command it is paired with.
DiffOf(dc, command) == updatedCommandProps(dc[FindDiscord(dc, command)], command)

\* Every paired command patched, whether or not its diff has a key.
ToPatch_Always(dc, cmds) ==
    LET Paired(command) == FindDiscord(dc, command) # 0
        picked == SelectSeq(cmds, Paired)
    IN  [j \in 1..Len(picked) |->
            [command |-> picked[j],
             discord |-> dc[FindDiscord(dc, picked[j])],
             diff |-> DiffOf(dc, picked[j])]]

\* toPatch: the paired commands whose diff has a key.
ToPatch(dc, cmds) ==
    LET Changed(command) ==
            FindDiscord(dc, command) # 0 /\ DiffOf(dc, command) # {}
        picked == SelectSeq(cmds, Changed)
    IN  [j \in 1..Len(picked) |->
            [command |-> picked[j],
             discord |-> dc[FindDiscord(dc, picked[j])],
             diff |-> DiffOf(dc, picked[j])]]

\* What the toPatch reduce pushes to commandData: the paired commands whose
\* diff has no key.
Unchanged(dc, cmds) ==
    LET Same(command) ==
            FindDiscord(dc, command) # 0 /\ DiffOf(dc, command) = {}
        picked == SelectSeq(cmds, Same)
    IN  [j \in 1..Len(picked) |->
            [command |-> picked[j], discord |-> dc[FindDiscord(dc, picked[j])]]]

\* toRegister of the earlier revision: a remote command of the same name,
\* whatever its type, counts as a match.
ToRegister_ByName(dc, cmds) ==
    LET New(cmd) == \A j \in 1..Len(dc) : dc[j].name # cmd.name
    IN  SelectSeq(cmds, New)

\* toRegister
\* No filter at all: every desired command is registered again.
ToRegister_All(dc, cmds) == cmds

ToRegister(dc, cmds) ==
    LET New(cmd) == FindDiscord(dc, cmd) = 0
    IN  SelectSeq(cmds, New)

\* ------------------------------------------------------------ the remote API
\* One remote call as issued: the operation, the id it addresses (0 when it
\* addresses none), the key of the desired command it is for, the keys of
\* the diff and of the serialized body, the loop it belongs to and when it
\* was issued.
Call(op, target, key, diff, body, loop, at) ==
    [op |-> op, target |-> target, key |-> key, diff |-> diff, body |-> body,
     phase |-> loop, at |-> at]

\* DELETE .../commands/{id}
RemoteDelete(cmds, id) ==
    LET Other(c) == c.id # id
    IN  SelectSeq(cmds, Other)

\* The value a body carries for the fields of a remote command.
Patched(c, keys, cmd) ==
    [id |-> c.id,
     name |-> IF "name" \in keys THEN cmd.name ELSE c.name,
     type |-> IF "type" \in keys THEN cmd.type ELSE c.type,
     description |-> IF "description" \in keys THEN DescriptionOf(cmd) ELSE c.description,
     options |-> IF "options" \in keys THEN cmd.opts ELSE c.options,
     integration_types |-> IF "integration_types" \in keys
                           THEN cmd.installation ELSE c.integration_types,
     contexts |-> IF "contexts" \in keys THEN cmd.interaction ELSE c.contexts]

\* PATCH .../commands/{id} with the body's keys taken from cmd
RemotePatch(cmds, id, keys, cmd) ==
    [j \in 1..Len(cmds) |-> IF cmds[j].id = id THEN Patched(cmds[j], keys, cmd)
                           ELSE cmds[j]]

\* The command Discord makes of a create body: the type is chat-input when
\* the body has none.
Created(id, cmd) ==
    RemoteCommand(id, cmd.name, TypeOrChatInput(cmd.type), DescriptionOf(cmd),
                  cmd.opts, cmd.installation, cmd.interaction)

\* POST .../commands: a command of the same name and type is overwritten and
\* keeps its id, otherwise the new command is added.
RemoteCreate(cmds, id, cmd) ==
    IF FindDiscord(cmds, cmd) # 0
    THEN [j \in 1..Len(cmds) |->
            IF j = FindDiscord(cmds, cmd) THEN Created(cmds[j].id, cmd) ELSE cmds[j]]
    ELSE Append(cmds, Created(id, cmd))

\* The entry of cmds with the given id (the caller knows there is one).
ById(cmds, id) == cmds[CHOOSE j \in 1..Len(cmds) : cmds[j].id = id]

\* ------------------------------------------------------------------ inputs
SyncPool ==
    {SyncCommand("foo", Undefined, Some("Foo"), NoList, NoList, NoList, "fooA"),
     SyncCommand("foo", ChatInput, Some("Foo v2"),
                 Some(<<Option(3, "x", "X", "false", NoList, NoList, "absent")>>),
                 Some(<<1, 0>>), NoList, "fooB"),
     SyncCommand("foo", User, NoString, NoList, NoList, NoList, "fooC"),
     SyncCommand("bar", Undefined, Some("Bar"), NoList, NoList, NoList, "barA"),
     SyncCommand("bar", Undefined, NoString, NoList, NoList, NoList, "barB")}

\* What Discord may hold for foo as a chat-input command, for foo as a user
\* command, and n commands no desired command names.
RemoteFooChat ==
    {<<>>,
     <<RemoteCommand(1, "foo", ChatInput, Some("Foo"), NoList, NoList, NoList)>>,
     <<RemoteCommand(1, "foo", ChatInput, Some("Foo"),
                     Some(<<Option(3, "x", "X", "absent", NoList, NoList, "absent")>>),
                     Some(<<0, 1>>), NoList)>>}

RemoteFooUser ==
    {<<>>, <<RemoteCommand(2, "foo", User, NoString, NoList, NoList, NoList)>>}

Stale(n) ==
    [k \in 1..n |->
        RemoteCommand(10 + k, "old" \o ToString(k), ChatInput, Some("Old"),
                      NoList, NoList, NoList)]

\* cmds
Cmds == ObjectValues(validateCommands(desired), desired)

\* ------------------------------------------------------------------ actions
DispatcherOff ==
    /\ commands = EmptyObject
    /\ components = EmptyObject
    /\ calls = 0
    /\ pc = "idle"
    /\ request = NoRequest
    /\ sentry = FALSE
    /\ verified = FALSE
    /\ parsed = FALSE
    /\ lookups = <<>>
    /\ invoked = <<>>
    /\ logged = 0
    /\ captured = 0
    /\ threw = FALSE
    /\ settled = "none"
    /\ result = NoResult
    /\ outcome = NoResult
    /\ task = "none"
    /\ taskCalls = 0

\* registerCommands(clientId, clientSecret, commands) is about to be called.
SyncInit ==
    /\ DispatcherOff
    /\ PureOff
    /\ ConcOff
    /\ KeyOff
    /\ desired \in ListsOf(SyncPool, MaxDesired)
    /\ \E fc \in RemoteFooChat, fu \in RemoteFooUser, n \in 0..MaxStale :
            remote = fc \o fu \o Stale(n)
    /\ nextId = 100
    /\ run = 1
    /\ spc = "init"
    /\ phase = "none"
    /\ idx = 0
    /\ discordCommands = <<>>
    /\ commandData = <<>>
    /\ log = <<>>
    /\ inflight = 0
    /\ now = 0

\* A failure caught around the call, the run going on with the loop.
Thrown_Swallowed == "loop"

\* api() throws on a response that is not ok and registerCommands catches
\* nothing: the promise it returned rejects and the run is over.
Thrown == "failed"

\* The commands are validated and grantToken is called.
SyncStart ==
    /\ spc = "init"
    /\ log' = <<Call("token", 0, "", {}, {}, "fetch", now)>>
    /\ inflight' = inflight + 1
    /\ spc' = "token"
    /\ UNCHANGED <<desired, remote, nextId, run, phase, idx, discordCommands,
                   commandData, now>>
    /\ UNCHANGED <<dispatchVars, pureVars, concVars, keyVars>>

\* grantToken returns, or fails; on success getCommands is called.
TokenReturns ==
    /\ spc = "token"
    /\ \E ok \in BOOLEAN :
        IF ok
        THEN /\ log' = Append(log, Call("fetch", 0, "", {}, {}, "fetch", now))
             /\ spc' = "fetch"
             /\ UNCHANGED inflight
        ELSE /\ spc' = Thrown
             /\ inflight' = inflight - 1
             /\ UNCHANGED log
    /\ UNCHANGED <<desired, remote, nextId, run, phase, idx, discordCommands,
                   commandData, now>>
    /\ UNCHANGED <<dispatchVars, pureVars, concVars, keyVars>>

\* getCommands returns, or fails; on success the remove loop is entered.
FetchReturns ==
    /\ spc = "fetch"
    /\ inflight' = inflight - 1
    /\ \E ok \in BOOLEAN :
        IF ok
        THEN /\ discordCommands' = remote
             /\ phase' = "remove"
             /\ spc' = "loop"
        ELSE /\ spc' = Thrown
             /\ UNCHANGED <<discordCommands, phase>>
    /\ UNCHANGED <<desired, remote, nextId, run, idx, commandData, log, now>>
    /\ UNCHANGED <<dispatchVars, pureVars, concVars, keyVars>>

\* The list a loop runs over.
PhaseList(loop) ==
    CASE loop = "remove" -> ToRemove(discordCommands, Cmds)
      [] loop = "patch" -> ToPatch(discordCommands, Cmds)
      [] loop = "create" -> ToRegister(discordCommands, Cmds)

\* The create loop placed before the patch loop.
NextPhase_CreateFirst(loop) ==
    CASE loop = "remove" -> "create"
      [] loop = "create" -> "patch"
      [] loop = "patch" -> "end"

\* The loops follow each other in the order of the source text.
NextPhase(loop) ==
    CASE loop = "remove" -> "patch"
      [] loop = "patch" -> "create"
      [] loop = "create" -> "end"

\* The call made by iteration i of a loop.
CallOf(loop, i) ==
    LET item == PhaseList(loop)[i + 1]
    IN  CASE loop = "remove" ->
                Call("delete", item.id, "", {}, {}, loop, now)
          [] loop = "patch" ->
                Call("patch", item.discord.id, getCommandName(item.command),
                     item.diff, JsonKeys(item.diff, item.command), loop, now)
          [] loop = "create" ->
                Call("create", 0, getCommandName(item),
                     {}, JsonKeys(BodyFields, item), loop, now)

\* A call whose promise is not awaited: the loop goes on at once.
AwaitCall_Forgotten == "loop"

\* `await removeCommand(...)` and the like: the run is suspended until the
\* call it issued returns.
AwaitCall == "call"

\* The top of a loop iteration: the loop is over, or the iteration pauses
\* first (i >= 5), or it issues its call.  When the remove loop is over the
\* toPatch reduce runs and records the commands that need no patch.
LoopStep ==
    /\ spc = "loop"
    /\ IF idx >= Len(PhaseList(phase))
       THEN /\ phase' = NextPhase(phase)
            /\ idx' = 0
            /\ spc' = IF NextPhase(phase) = "end" THEN "done" ELSE "loop"
            /\ commandData' = IF phase = "remove"
                              THEN Unchanged(discordCommands, Cmds)
                              ELSE commandData
            /\ UNCHANGED <<log, inflight>>
       ELSE IF idx >= 5
       THEN /\ spc' = "pause"
            /\ UNCHANGED <<phase, idx, commandData, log, inflight>>
       ELSE /\ log' = Append(log, CallOf(phase, idx))
            /\ inflight' = inflight + 1
            /\ spc' = AwaitCall
            /\ UNCHANGED <<phase, idx, commandData>>
    /\ UNCHANGED <<desired, remote, nextId, run, discordCommands, now>>
    /\ UNCHANGED <<dispatchVars, pureVars, concVars, keyVars>>

\* A timer of no duration: the paused iteration issues its call at once.
TimerFires_NoDelay ==
    /\ spc = "pause"
    /\ now' = now
    /\ log' = Append(log, [CallOf(phase, idx) EXCEPT !.at = now])
    /\ inflight' = inflight + 1
    /\ spc' = AwaitCall
    /\ UNCHANGED <<desired, remote, nextId, run, phase, idx, discordCommands,
                   commandData>>
    /\ UNCHANGED <<dispatchVars, pureVars, concVars, keyVars>>

\* The setTimeout of a paused iteration fires and the iteration issues its
\* call.
TimerFires ==
    /\ spc = "pause"
    /\ now' = now + ratelimit
    /\ log' = Append(log, [CallOf(phase, idx) EXCEPT !.at = now + ratelimit])
    /\ inflight' = inflight + 1
    /\ spc' = AwaitCall
    /\ UNCHANGED <<desired, remote, nextId, run, phase, idx, discordCommands,
                   commandData>>
    /\ UNCHANGED <<dispatchVars, pureVars, concVars, keyVars>>

\* A failed call caught and tried again: the iteration is repeated.
CallReturns_Retried ==
    /\ spc = "call"
    /\ inflight' = inflight - 1
    /\ \E ok \in BOOLEAN :
        LET item == PhaseList(phase)[idx + 1]
        IN  IF ~ok
            THEN /\ spc' = "loop"
                 /\ UNCHANGED <<remote, nextId, idx, commandData>>
            ELSE /\ spc' = "loop"
                 /\ idx' = idx + 1
                 /\ CASE phase = "remove" ->
                            /\ remote' = RemoteDelete(remote, item.id)
                            /\ UNCHANGED <<nextId, commandData>>
                      [] phase = "patch" ->
                            LET keys == JsonKeys(item.diff, item.command)
                                after == RemotePatch(remote, item.discord.id, keys,
                                                     item.command)
                            IN  /\ remote' = after
                                /\ commandData' = Append(commandData,
                                        [command |-> item.command,
                                         discord |-> ById(after, item.discord.id)])
                                /\ UNCHANGED nextId
                      [] phase = "create" ->
                            LET after == RemoteCreate(remote, nextId, item)
                            IN  /\ remote' = after
                                /\ nextId' = nextId + 1
                                /\ commandData' = Append(commandData,
                                        [command |-> item,
                                         discord |-> after[FindDiscord(after, item)]])
    /\ UNCHANGED <<desired, phase, discordCommands, log, now>>
    /\ UNCHANGED <<run>>
    /\ UNCHANGED <<dispatchVars, pureVars, concVars, keyVars>>

\* The call of the current iteration returns: Discord has applied it and the
\* run records the result, or the call failed and api() threw.
CallReturns ==
    /\ spc = "call"
    /\ inflight' = inflight - 1
    /\ \E ok \in BOOLEAN :
        LET item == PhaseList(phase)[idx + 1]
        IN  IF ~ok
            THEN /\ spc' = Thrown
                 /\ UNCHANGED <<remote, nextId, idx, commandData>>
            ELSE /\ spc' = "loop"
                 /\ idx' = idx + 1
                 /\ CASE phase = "remove" ->
                            /\ remote' = RemoteDelete(remote, item.id)
                            /\ UNCHANGED <<nextId, commandData>>
                      [] phase = "patch" ->
                            LET keys == JsonKeys(item.diff, item.command)
                                after == RemotePatch(remote, item.discord.id, keys,
                                                     item.command)
                            IN  /\ remote' = after
                                /\ commandData' = Append(commandData,
                                        [command |-> item.command,
                                         discord |-> ById(after, item.discord.id)])
                                /\ UNCHANGED nextId
                      [] phase = "create" ->
                            LET after == RemoteCreate(remote, nextId, item)
                            IN  /\ remote' = after
                                /\ nextId' = nextId + 1
                                /\ commandData' = Append(commandData,
                                        [command |-> item,
                                         discord |-> after[FindDiscord(after, item)]])
    /\ UNCHANGED <<desired, phase, discordCommands, log, now>>
    /\ UNCHANGED <<run>>
    /\ UNCHANGED <<dispatchVars, pureVars, concVars, keyVars>>

\* registerCommands is called again with the same commands, after a run
\* that completed.
SyncAgain ==
    /\ spc = "done"
    /\ run < MaxRuns
    /\ run' = run + 1
    /\ spc' = "init"
    /\ phase' = "none"
    /\ idx' = 0
    /\ discordCommands' = <<>>
    /\ commandData' = <<>>
    /\ log' = <<>>
    /\ now' = 0
    /\ UNCHANGED <<desired, remote, nextId, inflight>>
    /\ UNCHANGED <<dispatchVars, pureVars, concVars, keyVars>>

SyncNext ==
    \/ SyncStart
    \/ TokenReturns
    \/ FetchReturns
    \/ LoopStep
    \/ TimerFires
    \/ CallReturns
    \/ SyncAgain

SyncSpec == SyncInit /\ [][SyncNext]_vars

\* A step of the run that is under way: the run is sequential, so at most
\* one of these is enabled at a time.
RunStep ==
    \/ SyncStart
    \/ TokenReturns
    \/ FetchReturns
    \/ LoopStep
    \/ TimerFires
    \/ CallReturns

MaxFairDesired == 1   \* length of the commands argument of the fair run
MaxFairStale == 6     \* remote commands that no desired command names

\* registerCommands is about to be called, once.
FairSyncInit ==
    /\ DispatcherOff
    /\ PureOff
    /\ ConcOff
    /\ KeyOff
    /\ desired \in ListsOf({c \in SyncPool : c.execute \in {"fooA", "barA"}},
                           MaxFairDesired)
    /\ \E fc \in RemoteFooChat, n \in 0..MaxFairStale : remote = fc \o Stale(n)
    /\ nextId = 100
    /\ run = 1
    /\ spc = "init"
    /\ phase = "none"
    /\ idx = 0
    /\ discordCommands = <<>>
    /\ commandData = <<>>
    /\ log = <<>>
    /\ inflight = 0
    /\ now = 0

\* One run in which the run goes on whenever it can, its timers fire and
\* every remote call returns (with a result or an error).
FairSyncSpec == FairSyncInit /\ [][RunStep]_vars /\ WF_vars(RunStep)

\* ----------------------------------------------------- claims of the sync
MutatingOps == {"delete", "patch", "create"}

\* The calls of the current run with the given operation.
CallsOf(op) == {j \in 1..Len(log) : log[j].op = op}

\* The fetch of the current run has returned.
Fetched == phase # "none"

\* The key Discord holds a command under, and the key of a desired command.
RemoteKey(c) == <<c.name, c.type>>
DesiredKey(cmd) == <<cmd.name, TypeOrChatInput(cmd.type)>>

\* The accepted desired commands, and those among them with a given key.
Accepted == Range(Cmds)
KeyMatch(r) == {c \in Accepted : DesiredKey(c) = RemoteKey(r)}

\* C11: after a run that completed, a second run with the same desired
\* commands, fetching what the first run left, issues no create, patch or
\* delete.
C11_SecondRunIssuesNothing ==
    run > 1 => \A j \in 1..Len(log) : log[j].op \notin MutatingOps

\* C12: once the remove loop is over, the remote commands it deleted are
\* exactly the fetched commands whose (name, type) key no accepted desired
\* command has.
C12_DeletesUnmatchedKeys ==
    (Fetched /\ phase # "remove") =>
        {log[j].target : j \in CallsOf("delete")}
            = {r.id : r \in {x \in Range(discordCommands) : KeyMatch(x) = {}}}

SameFields(r, c) ==
    /\ r.name = c.name
    /\ r.description = DescriptionOf(c)
    /\ MapOptions(r.options) = MapOptions(c.opts)
    /\ consistentContexts(r.contexts) = consistentContexts(c.interaction)

\* C14: after a run that completed, the remote keys are the keys of the
\* accepted desired commands and each remote command has the name,
\* description, options and contexts of the desired command with its key.
C14_Synchronized ==
    spc = "done" =>
        /\ {RemoteKey(r) : r \in Range(remote)} = {DesiredKey(c) : c \in Accepted}
        /\ \A r \in Range(remote) : \A c \in KeyMatch(r) : SameFields(r, c)

\* C15: the body of every PATCH has a top-level field exactly when the diff
\* flagged that field.
C15_BodyIsDiff ==
    \A j \in CallsOf("patch") : log[j].body = log[j].diff

\* C16: a PATCH is issued only for a diff with at least one field; a paired
\* command whose diff is empty gets no call and is recorded once the patches
\* have been worked out.
C16_EmptyDiffNoCall ==
    /\ \A j \in CallsOf("patch") : log[j].diff # {}
    /\ (Fetched /\ phase # "remove") =>
        \A c \in Accepted :
            (FindDiscord(discordCommands, c) # 0 /\ DiffOf(discordCommands, c) = {}) =>
                /\ \A j \in 1..Len(log) : log[j].key # getCommandName(c)
                /\ \E j \in 1..Len(commandData) :
                        /\ commandData[j].command = c
                        /\ commandData[j].discord
                                = discordCommands[FindDiscord(discordCommands, c)]

\* A run has completed in which a paired command had an empty diff and is in
\* the result.
C16_Witness ==
    /\ spc = "done"
    /\ \E c \in Accepted :
            FindDiscord(discordCommands, c) # 0 /\ DiffOf(discordCommands, c) = {}
    /\ commandData # <<>>

\* C17: when a run has completed it has issued one create for each accepted
\* desired command without a remote match and no other create, and its
\* result has one record for each accepted desired command, each with the id
\* of the remote command of its key; no accepted command, no record.
C17_CreatesAndRecords ==
    spc = "done" =>
        /\ \A c \in Accepted :
                Cardinality({j \in CallsOf("create") : log[j].key = getCommandName(c)})
                    = IF FindDiscord(discordCommands, c) = 0 THEN 1 ELSE 0
        /\ \A j \in CallsOf("create") :
                \E c \in Accepted : log[j].key = getCommandName(c)
        /\ Len(commandData) = Len(Cmds)
        /\ \A c \in Accepted :
                Cardinality({j \in 1..Len(commandData) : commandData[j].command = c}) = 1
        /\ \A j \in 1..Len(commandData) :
                /\ commandData[j].discord.id # 0
                /\ \E r \in Range(remote) :
                        /\ r.id = commandData[j].discord.id
                        /\ RemoteKey(r) = DesiredKey(commandData[j].command)

\* A run has completed that created a command and was given an entry that
\* validation rejects or drops.
C17_Witness ==
    /\ spc = "done"
    /\ CallsOf("create") # {}
    /\ commandData # <<>>
    /\ Len(Cmds) < Len(desired)

\* The place of an operation in the order of a run.
Rank(op) ==
    CASE op = "token" -> 0
      [] op = "fetch" -> 1
      [] op = "delete" -> 2
      [] op = "patch" -> 3
      [] op = "create" -> 4

\* C18: the calls of a run are one token exchange, then one fetch, then the
\* deletes, then the patches, then the creates, and no delete, patch or
\* create is issued before the fetch has returned.
C18_FixedOrder ==
    /\ \A j, k \in 1..Len(log) : j < k => Rank(log[j].op) <= Rank(log[k].op)
    /\ Cardinality(CallsOf("token")) <= 1
    /\ Cardinality(CallsOf("fetch")) <= 1
    /\ Len(log) >= 1 => log[1].op = "token"
    /\ Len(log) >= 2 => log[2].op = "fetch"
    /\ Len(log) >= 3 => Fetched
    /\ spc \in {"token", "fetch"} => \A j \in 1..Len(log) : log[j].op \notin MutatingOps

\* A run has issued a delete, a patch and a create.
C18_Witness ==
    /\ CallsOf("delete") # {}
    /\ CallsOf("patch") # {}
    /\ CallsOf("create") # {}

\* C19: at most one remote call of a run is outstanding, and one is
\* outstanding exactly while the run waits for it.
C19_OneCallOutstanding ==
    /\ inflight <= 1
    /\ inflight = 1 <=> spc \in {"token", "fetch", "call"}

\* A mutating call is outstanding after an earlier one of the same loop has
\* returned.
C19_Witness ==
    /\ spc = "call"
    /\ idx >= 1
    /\ inflight = 1

\* The quota the pause is derived from: 5 calls per 20 000 ms.
QuotaWindow == 20000

\* C20: of the calls of one loop, the sixth after any call is issued no
\* sooner than one quota window after it, so no window holds more than 5.
C20_FivePerWindow ==
    \A j, k \in 1..Len(log) :
        (/\ log[j].op \in MutatingOps
         /\ log[j].phase = log[k].phase
         /\ k - j >= 5) =>
            log[k].at - log[j].at >= QuotaWindow

\* A remote call returns without the run moving on: the call failed.
CallFails == inflight' < inflight /\ idx' = idx /\ phase' = phase

\* C21: a remote call that fails ends the run with the error: the failing
\* step changes neither the remote commands nor the result, no call is
\* issued with it or after it, and a failed run takes no further step.
C21_FailureAborts ==
    [][/\ CallFails =>
            /\ spc' = "failed"
            /\ remote' = remote
            /\ log' = log
            /\ commandData' = commandData
       /\ spc # "failed"]_vars

\* A run has failed in the patch loop after its deletes were applied.
C21_Witness ==
    /\ spc = "failed"
    /\ phase = "patch"
    /\ CallsOf("delete") # {}
    /\ Len(remote) < Len(discordCommands)

\* ------------------------------------------- functions applied on their own
MaxOptionDepth == 1    \* levels of options nested in an option

\* Options without nested options that differ in what is written out.
LeafOptions ==
    {Option(3, "x", "X", r, c, o, a) :
        r \in {"absent", "false", "true"},
        c \in {NoList, Some(<<>>), Some(<<"a">>)},
        o \in {NoList, Some(<<>>)},
        a \in {"absent", "true"}}

\* Options nested at most d levels deep.
RECURSIVE OptionsOfDepth(_)
OptionsOfDepth(d) ==
    IF d = 0 THEN LeafOptions
    ELSE LeafOptions
         \cup {Option(1, "sub", "Sub", "absent", NoList, Some(<<o>>), "absent") :
                    o \in OptionsOfDepth(d - 1)}

\* The options field of a command: undefined, empty, or one option.
OptionLists ==
    {NoList, Some(<<>>)} \cup {Some(<<o>>) : o \in OptionsOfDepth(MaxOptionDepth)}

\* updatedCommandProps applied to a remote and a desired command that are
\* equal in everything but their options.
DiffArgs ==
    {[fn |-> "updatedCommandProps",
      old |-> RemoteCommand(1, "foo", ChatInput, Some("Foo"), a, NoList, NoList),
      new |-> SyncCommand("foo", Undefined, Some("Foo"), b, NoList, NoList, "fooA")] :
        a \in OptionLists, b \in OptionLists}

MaxContexts == 2    \* length of a list of context types

\* ApplicationIntegrationType and InteractionContextType values.
ContextValues == {0, 1, 2}

\* A list of context types: undefined, or values in any order, repeated or
\* not.
ContextLists == {NoList} \cup {Some(l) : l \in ListsOf(ContextValues, MaxContexts)}

\* updatedCommandProps applied to a remote and a desired command that are
\* equal in everything but their installation contexts, or their
\* interaction contexts.
ContextArgs ==
    {[fn |-> "updatedCommandProps",
      old |-> RemoteCommand(1, "foo", ChatInput, Some("Foo"), NoList, a, NoList),
      new |-> SyncCommand("foo", Undefined, Some("Foo"), NoList, b, NoList, "fooA")] :
        a \in ContextLists, b \in ContextLists}
    \cup
    {[fn |-> "updatedCommandProps",
      old |-> RemoteCommand(1, "foo", ChatInput, Some("Foo"), NoList, NoList, a),
      new |-> SyncCommand("foo", Undefined, Some("Foo"), NoList, NoList, b, "fooA")] :
        a \in ContextLists, b \in ContextLists}

\* ----------------------------------------- verify.js and the body of a call
\* A hex string, as far as verification reads it: its length and the
\* message it is Discord's Ed25519 signature of ("" when of none).
EmptyHex == [len |-> 0, of |-> ""]
GarbageHex == [len |-> 2, of |-> ""]
SignatureHex(message) == [len |-> 128, of |-> message]

\* hex2bin: one byte for every two hex digits.
hex2bin(hex) == [len |-> (hex.len + 1) \div 2, of |-> hex.of]

\* crypto.subtle.verify('NODE-ED25519', publicKey, signature, data): true
\* for the 64 bytes Discord's key signs data with, false for anything else.
Ed25519Verify(signature, data) == signature.len = 64 /\ signature.of = data

\* A request as verification reads it: the two headers (absent, or a value)
\* and the text of the body.
SignedRequest(timestamp, signature, text) ==
    [timestamp |-> timestamp, signature |-> signature, text |-> text]

\* verifyRequest(request, bodyText, publicKey): what its promise resolves to.
verifyRequest(req, bodyText) ==
    LET timestamp == IF req.timestamp.present THEN req.timestamp.v ELSE ""
        signature == hex2bin(IF req.signature.present THEN req.signature.v
                             ELSE EmptyHex)
    IN  IF Ed25519Verify(signature, timestamp \o bodyText) THEN "true" ELSE "false"

\* Body texts: a Ping written compactly and with spaces, the text null,
\* text that is not JSON, and a timestamp followed by a Ping (not JSON).
PingCompact == "{\"type\":1}"
PingSpaced == "{ \"type\": 1 }"
BodyTexts == {PingCompact, PingSpaced, "null", "oops", "1" \o PingCompact}

\* JSON.parse(text); NotJson stands for the SyntaxError it throws.
JsonParse(text) ==
    CASE text \in {PingCompact, PingSpaced} -> Body("object", Ping, "", Undefined, "")
      [] text = "null" -> JsonNull
      [] OTHER -> NotJson

\* JSON.stringify(value)
JsonStringify(value) == IF value = JsonNull THEN "null" ELSE PingCompact

\* What the first statements of handleInteraction did: the text verified,
\* what the verification gave, the response returned (if any), the text
\* parsed (if any), the interaction it gave, and the number of calls of
\* sentry.captureException.
Gate(checked, valid, response, text, interaction, sink) ==
    [checked |-> checked, valid |-> valid, response |-> response,
     text |-> text, interaction |-> interaction, captured |-> sink]

\* if (sentry) sentry.captureException(new Error('test'))
TestCapture(s) == IF s THEN 1 ELSE 0

\* The body parsed first and its re-serialized form verified.
ReadVerifyParse_Reserialized(req, s) ==
    LET body == req.text
        interaction == JsonParse(body)
        again == JsonStringify(interaction)
    IN  IF interaction = NotJson
        THEN Gate("", "false", Rejected, body, NotJson, TestCapture(s))
        ELSE IF verifyRequest(req, again) # "true"
        THEN Gate(again, "false", Response(401, ""), body, interaction, TestCapture(s))
        ELSE Gate(again, "true", NoResult, body, interaction, TestCapture(s))

\* const body = await request.text(); if (sentry) sentry.captureException(
\* new Error('test')); if (!await verifyRequest(request, body, key)) return
\* 401; const interaction = JSON.parse(body)
ReadVerifyParse(req, s) ==
    LET body == req.text
        valid == verifyRequest(req, body)
        sink == TestCapture(s)
    IN  IF valid # "true" THEN Gate(body, valid, Response(401, ""), "", NotJson, sink)
        ELSE IF JsonParse(body) = NotJson
        THEN Gate(body, valid, Rejected, body, NotJson, sink)
        ELSE Gate(body, valid, NoResult, body, JsonParse(body), sink)

\* The requests verification may be given: each header absent, empty or
\* with a value, the signature that of the request or of another one.
Timestamps == {"1", "2"}
SignedRequests ==
    {SignedRequest(t, g, x) :
        t \in {NoString, Some("")} \cup {Some(v) : v \in Timestamps},
        g \in {NoString, Some(EmptyHex), Some(GarbageHex)}
              \cup {Some(SignatureHex(v \o y)) :
                        v \in Timestamps, y \in {PingCompact, PingSpaced, "null"}},
        x \in BodyTexts}

MaxEntries == 3        \* length of a list given to validateCommands / validateComponents

\* Values isCommand may be given: what is not an object, and objects with
\* every combination of the fields isCommand reads.
CommandCandidates ==
    {CommandValue(k, "undefined", "", Undefined, "undefined", "", "absent", NotCallable) :
        k \in {"null", "other"}}
    \cup {CommandValue("object", n[1], n[2], t, d[1], d[2], o, e) :
            n \in {<<"undefined", "">>, <<"string", "">>, <<"string", "ping">>},
            t \in {Undefined, ChatInput, User, Message, PrimaryEntryPoint},
            d \in {<<"undefined", "">>, <<"null", "">>, <<"string", "">>,
                   <<"string", "Ping">>, <<"truthy", "">>},
            o \in {"absent", "empty", "nonempty", "nonarray"},
            e \in {"cmdA", NotCallable}}

\* Values isComponent may be given.
ComponentCandidates ==
    {ComponentValue(k, "undefined", "", NotCallable) : k \in {"null", "other"}}
    \cup {ComponentValue("object", n[1], n[2], e) :
            n \in {<<"undefined", "">>, <<"string", "">>, <<"string", "ping">>,
                   <<"string", "constructor">>},
            e \in {"cmpA", NotCallable}}

PureInit ==
    /\ DispatcherOff
    /\ SyncOff
    /\ ConcOff
    /\ KeyOff
    /\ applied = FALSE
    /\ ret = FALSE
    /\ \/ args \in DiffArgs \cup ContextArgs
       \/ \E v \in CommandCandidates : args = [fn |-> "isCommand", value |-> v]
       \/ \E v \in ComponentCandidates : args = [fn |-> "isComponent", value |-> v]
       \/ \E l \in ListsOf(CommandPool, MaxEntries) :
            args = [fn |-> "validateCommands", list |-> l]
       \/ \E l \in ListsOf(ComponentPool, MaxEntries) :
            args = [fn |-> "validateComponents", list |-> l]
       \/ \E q \in SignedRequests, s \in BOOLEAN :
            args = [fn |-> "handleInteraction", request |-> q, sentry |-> s]

ApplyIsCommand ==
    /\ args.fn = "isCommand"
    /\ ~applied
    /\ applied' = TRUE
    /\ ret' = isCommand(args.value)
    /\ UNCHANGED <<args, dispatchVars, syncVars, concVars, keyVars>>

ApplyIsComponent ==
    /\ args.fn = "isComponent"
    /\ ~applied
    /\ applied' = TRUE
    /\ ret' = isComponent(args.value)
    /\ UNCHANGED <<args, dispatchVars, syncVars, concVars, keyVars>>

ApplyValidateCommands ==
    /\ args.fn = "validateCommands"
    /\ ~applied
    /\ applied' = TRUE
    /\ ret' = validateCommands(args.list)
    /\ UNCHANGED <<args, dispatchVars, syncVars, concVars, keyVars>>

ApplyValidateComponents ==
    /\ args.fn = "validateComponents"
    /\ ~applied
    /\ applied' = TRUE
    /\ ret' = validateComponents(args.list)
    /\ UNCHANGED <<args, dispatchVars, syncVars, concVars, keyVars>>

ApplyUpdatedCommandProps ==
    /\ args.fn = "updatedCommandProps"
    /\ ~applied
    /\ applied' = TRUE
    /\ ret' = updatedCommandProps(args.old, args.new)
    /\ UNCHANGED <<args, dispatchVars, syncVars, concVars, keyVars>>

\* The first statements of handleInteraction (the revision with its own
\* verify.js), up to JSON.parse.
ApplyReadVerifyParse ==
    /\ args.fn = "handleInteraction"
    /\ ~applied
    /\ applied' = TRUE
    /\ ret' = ReadVerifyParse(args.request, args.sentry)
    /\ UNCHANGED <<args, dispatchVars, syncVars, concVars, keyVars>>

PureNext ==
    \/ ApplyUpdatedCommandProps
    \/ ApplyIsCommand
    \/ ApplyIsComponent
    \/ ApplyValidateCommands
    \/ ApplyValidateComponents
    \/ ApplyReadVerifyParse

PureSpec == PureInit /\ [][PureNext]_vars

\* choices || [], options || []
ListOrEmpty(l) == IF l.present THEN l.v ELSE <<>>

\* Two options are the same up to what may be left out: required false,
\* an empty choices list, an empty options list, at every depth.
RECURSIVE SameOption(_, _)
SameOption(o, p) ==
    /\ o.type = p.type
    /\ o.name = p.name
    /\ o.description = p.description
    /\ o.autocomplete = p.autocomplete
    /\ (o.required = "true") = (p.required = "true")
    /\ ListOrEmpty(o.choices) = ListOrEmpty(p.choices)
    /\ Len(ListOrEmpty(o.options)) = Len(ListOrEmpty(p.options))
    /\ \A j \in 1..Len(ListOrEmpty(o.options)) :
            SameOption(ListOrEmpty(o.options)[j], ListOrEmpty(p.options)[j])

SameOptionList(a, b) ==
    /\ Len(a) = Len(b)
    /\ \A j \in 1..Len(a) : SameOption(a[j], b[j])

\* The diff has been taken of two commands that both have an option list.
DiffTaken ==
    /\ applied
    /\ args.fn = "updatedCommandProps"
    /\ args.old.options.present
    /\ args.new.opts.present

\* C22: options is flagged exactly when the two option lists differ in more
\* than a left-out required: false, empty choices or empty nested options.
C22_OptionsFlaggedIffDifferent ==
    DiffTaken =>
        ("options" \in ret <=> ~SameOptionList(args.old.options.v, args.new.opts.v))

\* The function fn has been applied.
Applied(fn) == applied /\ args.fn = fn

\* The (name, type) key of a command, the type chat-input when absent.
NameType(cmd) == <<cmd.name, TypeOrChatInput(cmd.type)>>

\* The places of a list whose entry passes validation, and the first such
\* place for the key of entry i.
ValidCommands(l) == {i \in 1..Len(l) : isCommand(l[i])}
ValidComponents(l) == {i \in 1..Len(l) : isComponent(l[i])}
FirstCommand(l, i) ==
    i \in ValidCommands(l)
        /\ \A j \in ValidCommands(l) : j < i => NameType(l[j]) # NameType(l[i])
FirstComponent(l, i) ==
    i \in ValidComponents(l)
        /\ \A j \in ValidComponents(l) : j < i => l[j].name # l[i].name

\* C23: every entry of an index is the first accepted entry of the list with
\* its key, (name, type) for commands and name for components, and no two
\* entries of an index have the same key.
C23_FirstOccurrenceWins ==
    /\ Applied("validateCommands") =>
        /\ \A k \in DOMAIN ret :
                \E i \in 1..Len(args.list) :
                    FirstCommand(args.list, i) /\ ret[k] = args.list[i]
        /\ \A k1, k2 \in DOMAIN ret :
                NameType(ret[k1]) = NameType(ret[k2]) => k1 = k2
    /\ Applied("validateComponents") =>
        /\ \A k \in DOMAIN ret :
                \E i \in 1..Len(args.list) :
                    /\ FirstComponent(args.list, i)
                    /\ ret[k] = args.list[i]
                    /\ k = args.list[i].name
        /\ \A k1, k2 \in DOMAIN ret : ret[k1].name = ret[k2].name => k1 = k2

\* An index has been built from a list in which a second accepted entry has
\* the key of an earlier one and another executor.
C23_Witness ==
    /\ Applied("validateCommands")
    /\ \E i, j \in ValidCommands(args.list) :
            /\ i < j
            /\ NameType(args.list[i]) = NameType(args.list[j])
            /\ args.list[i].execute # args.list[j].execute
    /\ DOMAIN ret # {}

\* C24: the keys of an index are exactly the keys of the entries of the list
\* that pass validation, wherever the rejected entries sit.
C24_EveryValidEntryIndexed ==
    /\ Applied("validateCommands") =>
        {NameType(ret[k]) : k \in DOMAIN ret}
            = {NameType(args.list[i]) : i \in ValidCommands(args.list)}
    /\ Applied("validateComponents") =>
        DOMAIN ret = {args.list[i].name : i \in ValidComponents(args.list)}

\* C25: isCommand accepts a value exactly when it is an object with a
\* non-empty string name and a callable execute that has a non-empty string
\* description if its type is absent, chat-input or primary-entry-point, and
\* no description and no or empty options if its type is user or message.
C25_CommandAcceptedIff ==
    Applied("isCommand") =>
        (ret <=>
            /\ args.value.kind = "object"
            /\ args.value.nameT = "string"
            /\ Len(args.value.name) > 0
            /\ args.value.type \in {Undefined, ChatInput, PrimaryEntryPoint} =>
                    args.value.descT = "string" /\ Len(args.value.description) > 0
            /\ args.value.type \in {User, Message} =>
                    /\ args.value.descT = "undefined"
                    /\ args.value.options \in {"absent", "empty"}
            /\ args.value.execute # NotCallable)

C27_IndexesNeverChange ==
    [][/\ commands' = commands
       /\ components' = components
       /\ calls' # calls =>
            /\ ~verified'
            /\ ~parsed'
            /\ lookups' = <<>>
            /\ invoked' = <<>>]_vars

\* A second call to a handler with a registered command has ended after the
\* command's executor threw.
C27_Witness ==
    /\ calls >= 2
    /\ pc = "done"
    /\ Dispatched
    /\ threw
    /\ invoked # <<>>
    /\ lookups[1] \in DOMAIN commands

\* C30: the response made for a handler that failed is the same whatever
\* was thrown and whatever the interaction held: the ephemeral message for a
\* command, an empty 500 for a component.
C30_FixedErrorResponse ==
    (Dispatched /\ (threw \/ settled = "rejected") /\ result.kind = "response") =>
        /\ request.body.type = ApplicationCommand =>
                /\ result.status = 200
                /\ result.body = "ephemeral-error"
        /\ request.body.type = MessageComponent =>
                /\ result.status = 500
                /\ result.body = ""
        /\ result.body \notin {request.body.name, request.body.custom_id} \ {""}

\* A component whose executor threw was answered with the empty 500.
C30_Witness ==
    /\ Dispatched
    /\ pc = "done"
    /\ request.body.type = MessageComponent
    /\ threw
    /\ invoked # <<>>
    /\ outcome.kind = "response"
    /\ outcome.status = 500

\* The request with an absent header replaced by an empty one.
WithEmptyHeaders(q) ==
    [q EXCEPT !.timestamp = IF q.timestamp.present THEN q.timestamp ELSE Some(""),
              !.signature = IF q.signature.present THEN q.signature ELSE Some(EmptyHex)]

\* C28: a request without its signature header or without its timestamp
\* header is verified as the same request with the header empty, the
\* verification gives false, not an exception, and the call is answered 401.
C28_MissingHeaderIs401 ==
    (Applied("handleInteraction")
        /\ (~args.request.timestamp.present \/ ~args.request.signature.present)) =>
        /\ ret.valid = "false"
        /\ ret.valid = verifyRequest(WithEmptyHeaders(args.request), args.request.text)
        /\ ret.response = [kind |-> "response", status |-> 401, body |-> ""]

\* The request carries Discord's signature of the value of its timestamp
\* header (nothing when it has none) followed by its body text as received.
SignsRawBody(q) ==
    /\ q.signature.present
    /\ q.signature.v = [len |-> 128,
                        of |-> (IF q.timestamp.present THEN q.timestamp.v ELSE "")
                                   \o q.text]

Routed ==
    \/ request.method = "POST" /\ request.path = "/interactions"
    \/ request.method = "GET" /\ request.path = "/health"

\* C31: a call for any method and path other than POST /interactions and
\* GET /health resolves with no response, and the request is neither
\* verified nor parsed and no index is read and no executor is called; a
\* response reaches the caller only for the two routes.
C31_OnlyTwoRoutes ==
    /\ (pc # "idle" /\ ~Routed) =>
            /\ pc \in {"returned", "done"}
            /\ result = ResolvedUndefined
            /\ ~verified
            /\ ~parsed
            /\ lookups = <<>>
            /\ invoked = <<>>
            /\ captured = 0
            /\ task = "none"
            /\ pc = "done" => outcome = ResolvedUndefined
    /\ (result.kind = "response" \/ outcome.kind = "response") => Routed

\* A signed POST carrying a registered command, sent to another path, has
\* resolved with no response.
C31_Witness ==
    /\ pc = "done"
    /\ request.method = "POST"
    /\ request.path = "/"
    /\ request.signed
    /\ HasTruthy(commands, getInteractionName(request.body))
    /\ outcome = ResolvedUndefined

\* C32: sentry.captureException is called only when a command or component
\* executor has failed: not by the statements of handleInteraction that
\* come before the switch, whose calls end in 401 or go on to the switch,
\* and in the dispatcher only in a call whose executor threw.
C32_SinkOnlyOnHandlerFailure ==
    /\ Applied("handleInteraction") => ret.captured = 0
    /\ captured > 0 => threw

\* It is in a pause that time passes between calls j and k of the run.
PauseBetween(j, k) == log[k].at > log[j].at

\* C33: among all the creates, patches and deletes of one run, in the order
\* they are issued, every six consecutive calls have a pause between two of
\* them.
C33_PausedAcrossPhases ==
    \A j \in 1..Len(log) :
        (j + 5 <= Len(log) /\ log[j].op \in MutatingOps) => PauseBetween(j, j + 5)

\* C33, amended: among the calls of one loop, in the order they are issued,
\* every six consecutive calls have a pause between two of them.
C33_PausedWithinPhase ==
    \A j \in 1..Len(log) :
        (/\ j + 5 <= Len(log)
         /\ log[j].op \in MutatingOps
         /\ log[j + 5].phase = log[j].phase) => PauseBetween(j, j + 5)

\* The remove loop has issued six deletes, the sixth after a pause.
C33_Witness ==
    /\ Len(log) >= 8
    /\ log[3].op = "delete"
    /\ log[8].op = "delete"
    /\ PauseBetween(7, 8)

\* C34: every PATCH the run issues has at least one field in the body that
\* is sent, also when every field the diff flags has an undefined desired
\* value.
C34_PatchBodyNotEmpty ==
    \A j \in CallsOf("patch") : log[j].body # {}

\* C35: in one run no remote command is the target of two mutating calls
\* (deleted and patched, or patched twice), and no accepted desired command
\* is the subject of two (patched and created, or either twice).
C35_AtMostOneCallEach ==
    /\ \A j, k \in CallsOf("delete") \cup CallsOf("patch") :
            log[j].target = log[k].target => j = k
    /\ \A j, k \in CallsOf("patch") \cup CallsOf("create") :
            log[j].key = log[k].key => j = k

\* A completed run that deleted, patched and created.
C35_Witness ==
    /\ spc = "done"
    /\ CallsOf("delete") # {}
    /\ CallsOf("patch") # {}
    /\ CallsOf("create") # {}

\* ------------------------------- two runs of registerCommands at the same time
\* Both runs are given the same commands and the same scope: they share
\* desired, remote and nextId, and each has its own locals.
MaxPeerDesired == 1   \* length of the commands argument of the two runs
MaxPeerStale == 6     \* remote commands that no desired command names

Peers == {1, 2}

\* The locals of one run.
Peer(at, loop, i, dc, data, calls_) ==
    [spc |-> at, phase |-> loop, idx |-> i, discordCommands |-> dc,
     commandData |-> data, log |-> calls_]

\* What both runs leave alone.
peerIdle == <<desired, run, spc, phase, idx, discordCommands, commandData, log,
              inflight, now>>

\* The commands the two runs may be given: one Discord may hold already
\* and one it does not hold.
PeerPool == {c \in SyncPool : c.execute \in {"fooA", "barA"}}

ConcInit ==
    /\ DispatcherOff
    /\ PureOff
    /\ KeyOff
    /\ desired \in ListsOf(PeerPool, MaxPeerDesired)
    /\ \E fc \in RemoteFooChat, n \in 0..MaxPeerStale : remote = fc \o Stale(n)
    /\ nextId = 100
    /\ run = 0
    /\ spc = "off"
    /\ phase = "none"
    /\ idx = 0
    /\ discordCommands = <<>>
    /\ commandData = <<>>
    /\ log = <<>>
    /\ inflight = 0
    /\ now = 0
    /\ peers = [r \in Peers |-> Peer("init", "none", 0, <<>>, <<>>, <<>>)]

\* The list a loop of the run runs over.
PeerList(p, loop) ==
    CASE loop = "remove" -> ToRemove(p.discordCommands, Cmds)
      [] loop = "patch" -> ToPatch(p.discordCommands, Cmds)
      [] loop = "create" -> ToRegister(p.discordCommands, Cmds)

\* The call made by the current iteration of the run.
PeerCallOf(p) ==
    LET item == PeerList(p, p.phase)[p.idx + 1]
    IN  CASE p.phase = "remove" ->
                Call("delete", item.id, "", {}, {}, p.phase, now)
          [] p.phase = "patch" ->
                Call("patch", item.discord.id, getCommandName(item.command),
                     item.diff, JsonKeys(item.diff, item.command), p.phase, now)
          [] p.phase = "create" ->
                Call("create", 0, getCommandName(item),
                     {}, JsonKeys(BodyFields, item), p.phase, now)

\* Discord holds a command with the id: a DELETE or PATCH of an id it does
\* not hold is answered 404, which api() throws.
Holds(cmds, id) == \E j \in 1..Len(cmds) : cmds[j].id = id

\* The commands are validated and grantToken is called.
PeerStart(r) ==
    /\ peers[r].spc = "init"
    /\ peers' = [peers EXCEPT ![r].spc = "token",
                              ![r].log = <<Call("token", 0, "", {}, {}, "fetch", now)>>]
    /\ UNCHANGED <<remote, nextId, peerIdle>>
    /\ UNCHANGED <<dispatchVars, pureVars, keyVars>>

\* grantToken returns, or fails; on success getCommands is called.
PeerTokenReturns(r) ==
    /\ peers[r].spc = "token"
    /\ \E ok \in BOOLEAN :
        peers' = IF ok
                 THEN [peers EXCEPT ![r].spc = "fetch",
                                    ![r].log = Append(@, Call("fetch", 0, "", {}, {},
                                                              "fetch", now))]
                 ELSE [peers EXCEPT ![r].spc = Thrown]
    /\ UNCHANGED <<remote, nextId, peerIdle>>
    /\ UNCHANGED <<dispatchVars, pureVars, keyVars>>

\* getCommands returns what Discord holds at that moment, or fails.
PeerFetchReturns(r) ==
    /\ peers[r].spc = "fetch"
    /\ \E ok \in BOOLEAN :
        peers' = IF ok
                 THEN [peers EXCEPT ![r].spc = "loop", ![r].phase = "remove",
                                    ![r].discordCommands = remote]
                 ELSE [peers EXCEPT ![r].spc = Thrown]
    /\ UNCHANGED <<remote, nextId, peerIdle>>
    /\ UNCHANGED <<dispatchVars, pureVars, keyVars>>

\* The top of a loop iteration of the run.
PeerLoopStep(r) ==
    LET p == peers[r]
    IN  /\ p.spc = "loop"
        /\ peers' =
            IF p.idx >= Len(PeerList(p, p.phase))
            THEN [peers EXCEPT
                    ![r].phase = NextPhase(p.phase),
                    ![r].idx = 0,
                    ![r].spc = IF NextPhase(p.phase) = "end" THEN "done" ELSE "loop",
                    ![r].commandData = IF p.phase = "remove"
                                       THEN Unchanged(p.discordCommands, Cmds)
                                       ELSE @]
            ELSE IF p.idx >= 5
            THEN [peers EXCEPT ![r].spc = "pause"]
            ELSE [peers EXCEPT ![r].spc = AwaitCall,
                               ![r].log = Append(@, PeerCallOf(p))]
        /\ UNCHANGED <<remote, nextId, peerIdle>>
        /\ UNCHANGED <<dispatchVars, pureVars, keyVars>>

\* The setTimeout of a paused iteration fires and the iteration issues its
\* call.  The clock of the two runs is not followed.
PeerTimerFires(r) ==
    /\ peers[r].spc = "pause"
    /\ peers' = [peers EXCEPT ![r].spc = AwaitCall,
                              ![r].log = Append(@, PeerCallOf(peers[r]))]
    /\ UNCHANGED <<remote, nextId, peerIdle>>
    /\ UNCHANGED <<dispatchVars, pureVars, keyVars>>

\* The call of the current iteration returns: Discord has applied it to
\* what it holds now, or it failed and api() threw.
PeerCallReturns(r) ==
    LET p == peers[r]
        item == PeerList(p, p.phase)[p.idx + 1]
        call == p.log[Len(p.log)]
    IN  /\ p.spc = "call"
        /\ \E ok \in BOOLEAN :
            IF ~ok \/ (call.op \in {"delete", "patch"} /\ ~Holds(remote, call.target))
            THEN /\ peers' = [peers EXCEPT ![r].spc = Thrown]
                 /\ UNCHANGED <<remote, nextId>>
            ELSE CASE p.phase = "remove" ->
                        /\ remote' = RemoteDelete(remote, item.id)
                        /\ peers' = [peers EXCEPT ![r].spc = "loop", ![r].idx = @ + 1]
                        /\ UNCHANGED nextId
                   [] p.phase = "patch" ->
                        LET keys == JsonKeys(item.diff, item.command)
                            after == RemotePatch(remote, item.discord.id, keys,
                                                 item.command)
                        IN  /\ remote' = after
                            /\ peers' = [peers EXCEPT
                                    ![r].spc = "loop", ![r].idx = @ + 1,
                                    ![r].commandData = Append(@,
                                        [command |-> item.command,
                                         discord |-> ById(after, item.discord.id)])]
                            /\ UNCHANGED nextId
                   [] p.phase = "create" ->
                        LET after == RemoteCreate(remote, nextId, item)
                        IN  /\ remote' = after
                            /\ nextId' = nextId + 1
                            /\ peers' = [peers EXCEPT
                                    ![r].spc = "loop", ![r].idx = @ + 1,
                                    ![r].commandData = Append(@,
                                        [command |-> item,
                                         discord |-> after[FindDiscord(after, item)]])]
        /\ UNCHANGED peerIdle
        /\ UNCHANGED <<dispatchVars, pureVars, keyVars>>

ConcNext ==
    \E r \in Peers :
        \/ PeerStart(r)
        \/ PeerTokenReturns(r)
        \/ PeerFetchReturns(r)
        \/ PeerLoopStep(r)
        \/ PeerTimerFires(r)
        \/ PeerCallReturns(r)

ConcSpec == ConcInit /\ [][ConcNext]_vars

\* The calls of run r with the given operation.
PeerCallsOf(r, op) == {j \in 1..Len(peers[r].log) : peers[r].log[j].op = op}

\* The keys Discord held when the run fetched.
FetchedKeys(r) ==
    {c.name \o " (type: " \o ToString(c.type) \o ")" :
        c \in Range(peers[r].discordCommands)}

\* C36: whatever the interleaving of two runs given the same commands and
\* scope, no key is the subject of a create in both runs and no remote
\* command is the target of a delete in both.
C36_NoDoubleCreateOrDelete ==
    \A j \in 1..Len(peers[1].log), k \in 1..Len(peers[2].log) :
        /\ ~(/\ peers[1].log[j].op = "create"
             /\ peers[2].log[k].op = "create"
             /\ peers[1].log[j].key = peers[2].log[k].key)
        /\ ~(/\ peers[1].log[j].op = "delete"
             /\ peers[2].log[k].op = "delete"
             /\ peers[1].log[j].target = peers[2].log[k].target)

\* C36, amended: each of the two runs creates only keys that Discord did
\* not hold when that run fetched, deletes only commands its fetch returned,
\* and does either at most once per key and per command.
C36_OncePerFetch ==
    \A r \in Peers :
        /\ \A j \in PeerCallsOf(r, "create") :
                /\ peers[r].log[j].key \notin FetchedKeys(r)
                /\ \A k \in PeerCallsOf(r, "create") :
                        peers[r].log[k].key = peers[r].log[j].key => k = j
        /\ \A j \in PeerCallsOf(r, "delete") :
                /\ Holds(peers[r].discordCommands, peers[r].log[j].target)
                /\ \A k \in PeerCallsOf(r, "delete") :
                        peers[r].log[k].target = peers[r].log[j].target => k = j

\* Both runs have completed and each has created the same key.
C36_Witness ==
    /\ peers[1].spc = "done"
    /\ peers[2].spc = "done"
    /\ \E j \in PeerCallsOf(1, "create"), k \in PeerCallsOf(2, "create") :
            peers[1].log[j].key = peers[2].log[k].key

\* The run is over: registerCommands has returned or thrown.
Terminated == spc \in {"done", "failed"}

\* C37: when every remote call returns, a run that has started terminates,
\* and at no time has it issued more deletes than its fetch returned
\* commands, or more patches and creates together than there are accepted
\* desired commands.
C37_TerminatesWithinBudget ==
    /\ (spc = "init") ~> Terminated
    /\ [](/\ Cardinality(CallsOf("delete")) <= Len(discordCommands)
          /\ Cardinality(CallsOf("patch") \cup CallsOf("create")) <= Len(Cmds))

\* A run has returned after six deletes, the last one after a pause, and
\* a create.
C37_Witness ==
    /\ spc = "done"
    /\ Cardinality(CallsOf("delete")) = 6
    /\ Len(discordCommands) = 6
    /\ Cardinality(CallsOf("create")) = 1
    /\ now > 0

\* ------------------------------ the handler that imports its key (verify.js)
\* The public key createHandler may be given: the application's, with which
\* Discord's signatures verify, or another one.
PublicKeys == {"app", "other"}

\* importKey(key): the CryptoKey crypto.subtle.importKey makes of the bytes.
importKey(key) == [name |-> "NODE-ED25519", raw |-> key]

\* createHandler(commands, components, publicKey): the indexes are built and
\* the key is imported.
EarlyInit ==
    /\ \E cs \in ListsOf(CommandPool, MaxCommands) : commands = validateCommands(cs)
    /\ \E ps \in ListsOf(ComponentPool, MaxComponents) : components = validateComponents(ps)
    /\ \E pk \in PublicKeys :
            keyring = [imports |-> 1, handler |-> importKey(pk), used |-> {},
                       checks |-> 0]
    /\ SyncOff
    /\ PureOff
    /\ ConcOff
    /\ calls = 0
    /\ pc = "idle"
    /\ request = NoRequest
    /\ sentry = FALSE
    /\ verified = FALSE
    /\ parsed = FALSE
    /\ lookups = <<>>
    /\ invoked = <<>>
    /\ logged = 0
    /\ captured = 0
    /\ threw = FALSE
    /\ settled = "none"
    /\ result = NoResult
    /\ outcome = NoResult
    /\ task = "none"
    /\ taskCalls = 0

\* The handler createHandler returned is called: handleRequest runs up to
\* its first suspension, which for an interaction is `await request.text()`.
EarlyHandleRequest ==
    /\ pc \in {"idle", "done"}
    /\ calls < MaxCalls
    /\ \E req \in Requests, s \in BOOLEAN :
        /\ request' = req
        /\ sentry' = s
        /\ IF req.method = "POST" /\ req.path = "/interactions"
           THEN pc' = "reading" /\ result' = NoResult
           ELSE IF req.method = "GET" /\ req.path = "/health"
           THEN pc' = "returned" /\ result' = Response(200, "OK")
           ELSE pc' = "returned" /\ result' = ResolvedUndefined
    /\ calls' = calls + 1
    /\ verified' = FALSE
    /\ parsed' = FALSE
    /\ lookups' = <<>>
    /\ invoked' = <<>>
    /\ logged' = 0
    /\ captured' = 0
    /\ threw' = FALSE
    /\ settled' = "none"
    /\ outcome' = NoResult
    /\ task' = "none"
    /\ taskCalls' = 0
    /\ UNCHANGED <<syncVars, pureVars, concVars, keyVars>>
    /\ UNCHANGED <<commands, components>>

\* handleInteraction, resumed after `await request.text()`.
EarlyRead ==
    /\ pc = "reading"
    /\ captured' = TestCapture(sentry)
    /\ pc' = "verifying"
    /\ UNCHANGED <<syncVars, pureVars, concVars, keyVars>>
    /\ UNCHANGED <<commands, components, calls, request, sentry, verified, parsed,
                   lookups, invoked, logged, threw, settled, result, outcome, task,
                   taskCalls>>

\* The key imported again for every call, inside the verification.
EarlyVerify_ImportsPerCall ==
    /\ pc = "verifying"
    /\ LET key == importKey(keyring.handler.raw)
       IN  /\ keyring' = [keyring EXCEPT !.imports = @ + 1, !.used = @ \cup {key},
                                         !.checks = @ + 1]
           /\ IF ~(request.signed /\ key.raw = "app")
              THEN /\ result' = Response(401, "")
                   /\ pc' = "returned"
                   /\ UNCHANGED verified
              ELSE /\ verified' = TRUE
                   /\ pc' = "parsing"
                   /\ UNCHANGED result
    /\ UNCHANGED <<syncVars, pureVars, concVars>>
    /\ UNCHANGED <<commands, components, calls, request, sentry, parsed, lookups,
                   invoked, logged, captured, threw, settled, outcome, task,
                   taskCalls>>

\* handleInteraction, resumed after `await verifyRequest(request, body, await
\* publicKey)`: the key is the one the closure of createHandler holds, and
\* Discord's signature verifies under the application's key only.
EarlyVerify ==
    /\ pc = "verifying"
    /\ LET key == keyring.handler
       IN  /\ keyring' = [keyring EXCEPT !.used = @ \cup {key}, !.checks = @ + 1]
           /\ IF ~(request.signed /\ key.raw = "app")
              THEN /\ result' = Response(401, "")
                   /\ pc' = "returned"
                   /\ UNCHANGED verified
              ELSE /\ verified' = TRUE
                   /\ pc' = "parsing"
                   /\ UNCHANGED result
    /\ UNCHANGED <<syncVars, pureVars, concVars>>
    /\ UNCHANGED <<commands, components, calls, request, sentry, parsed, lookups,
                   invoked, logged, captured, threw, settled, outcome, task,
                   taskCalls>>

\* The rest of the call is as in the handler that does not import a key:
\* JSON.parse(body), the switch, the handlers.
EarlyNext ==
    \/ EarlyHandleRequest
    \/ EarlyRead
    \/ EarlyVerify
    \/ HandleInteraction
    \/ HandlerSettles
    \/ Complete
    \/ TaskCall
    \/ TaskEnds

EarlySpec == EarlyInit /\ [][EarlyNext]_vars

ValuesOf(l) == {l.v[j] : j \in 1..Len(l.v)}

\* C39: of two lists of installation contexts, and of two lists of
\* interaction contexts, the diff flags the field exactly when the lists do
\* not hold the same set of values; order and repetition do not count.
C39_ContextsComparedAsSets ==
    Applied("updatedCommandProps") =>
        /\ (args.old.integration_types.present /\ args.new.installation.present) =>
                ("integration_types" \in ret
                    <=> ValuesOf(args.old.integration_types)
                            # ValuesOf(args.new.installation))
        /\ (args.old.contexts.present /\ args.new.interaction.present) =>
                ("contexts" \in ret
                    <=> ValuesOf(args.old.contexts) # ValuesOf(args.new.interaction))

\* Lists with the same values in another order were found unchanged.
C39_Witness ==
    /\ Applied("updatedCommandProps")
    /\ args.old.contexts = Some(<<2, 0>>)
    /\ args.new.interaction = Some(<<0, 2>>)
    /\ "contexts" \notin ret

====
